---------------------------- MODULE Spec2Model ----------------------------
(***************************************************************************)
(* A model of the DualShock 4 protocol codec of ds4mac                     *)
(* (Sources/DS4Driver/DS4Protocol.cpp): the USB input report decoder, the  *)
(* USB output report encoder, the calibration feature-report decoder and   *)
(* the IMU calibration engine; and of the driver object that uses it       *)
(* (Sources/DS4Driver/DS4HIDDevice.cpp): init, Start, Stop, the input      *)
(* polling loop and the state accessors.                                   *)
(*                                                                         *)
(* Conventions.                                                            *)
(*  - A buffer is a function from 0..n-1 to bytes (0..255), so that the    *)
(*    offsets of the model are the offsets of the source.  A pointer      *)
(*    argument is NULL or Ptr(v), v the value it points at.               *)
(*  - uint8_t/uint16_t/int16_t/int32_t values are integers kept in their   *)
(*    range by the casts ToUInt8, ToUInt16, ToInt16, ToInt32.              *)
(*  - A double is represented by the exact rational number it stands for,  *)
(*    [neg, num, den] with num and den arbitrary-precision naturals: the   *)
(*    rounding of the last floating-point division to 53 bits is not       *)
(*    modelled.  den = 0 represents NaN or an infinity.                    *)
(***************************************************************************)
EXTENDS Integers, Sequences, FiniteSets, TLC

VARIABLES
    pc,         \* position of the calling harness: "ready" or "returned"
    data,       \* const uint8_t *data: the buffer handed to a decoder, or NULL
    length,     \* uint32_t length
    outState,   \* DS4InputState *outState: the caller's record, or NULL
    outCal,     \* DS4CalibrationData *outCal: the caller's record, or NULL
    call,       \* the last decoder call: which function, its return value,
                \* the check that rejected it, the buffer indices it read
    log,        \* the calls made so far, each with what the caller observed
    state,      \* const DS4OutputState *state (encoder input)
    outReport,  \* uint8_t *outReport (encoder output buffer)
    raw,        \* const DS4IMUState *raw (calibration engine input)
    cal,        \* const DS4CalibrationData *cal (calibration engine input)
    calibrated, \* DS4CalibratedIMU *outCal (calibration engine output)
    ivars,      \* DS4HIDDevice_IVars *ivars: NULL before DS4HIDDevice::init
    completion, \* the thread running inputReportComplete: its position and
                \* the arguments of the call
    copier,     \* the thread running copyInputState: its position
    snapshot,   \* void *outBuffer of copyInputState, the caller's copy
    properties, \* the battery properties published by SetProperty
    delivered,  \* the reports the completions so far were called for
    forwarded,  \* the reports handed to IOHIDFamily by handleReport
    pendingReads, \* the asynchronous reads outstanding on the IN pipe
    framework   \* the calls the driver object has made to DriverKit and
                \* the values its entry points returned, oldest first

vars == <<pc, data, length, outState, outCal, call, log,
          state, outReport, raw, cal, calibrated,
          ivars, completion, copier, snapshot, properties,
          delivered, forwarded, pendingReads, framework>>

decoderVars == <<data, length, outState, outCal, call, log>>
encoderVars == <<state, outReport>>
engineVars  == <<raw, cal, calibrated>>
deviceVars  == <<ivars, completion, copier, snapshot, properties,
                 delivered, forwarded, pendingReads, framework>>

\* A pointer is NULL or points at a value: Ptr(v).v is *p.
NULL == [null |-> TRUE]

Ptr(v) == [null |-> FALSE, v |-> v]

(***************************************************************************)
(* Fixed-width integers and bit operations                                 *)
(***************************************************************************)
Byte == 0..255

Bit(x, k) == (x \div (2 ^ k)) % 2

\* x & y on 16-bit unsigned operands
And16(x, y) ==
    LET b(k) == Bit(x, k) * Bit(y, k) * (2 ^ k)
    IN  b(0) + b(1) + b(2) + b(3) + b(4) + b(5) + b(6) + b(7)
      + b(8) + b(9) + b(10) + b(11) + b(12) + b(13) + b(14) + b(15)

\* x | y on 16-bit unsigned operands
Or16(x, y) == x + y - And16(x, y)

ShiftLeft(x, n) == x * (2 ^ n)

ShiftRight(x, n) == x \div (2 ^ n)

ToUInt8(x) == x % 256

ToUInt16(x) == x % 65536

\* (int16_t)x of a value in the uint16_t range: two's complement
ToInt16(x) == IF (x % 65536) >= 32768 THEN (x % 65536) - 65536 ELSE x % 65536

\* C integer division truncates toward zero
CDiv(a, b) ==
    LET q == (IF a < 0 THEN -a ELSE a) \div (IF b < 0 THEN -b ELSE b)
    IN  IF (a < 0) = (b < 0) THEN q ELSE -q


\* (int32_t)x: the identity on the values an int32_t holds.  The model
\* checker's own integers are 32 bits wide and it stops with an error rather
\* than wrap, so an int32_t overflow cannot pass unnoticed.
ToInt32(x) == x

(***************************************************************************)
(* Little-endian helpers                                                   *)
(***************************************************************************)
\* buf[i]
At(buf, i) == buf[i]

readUInt16LE(buf, offset) ==
    ToUInt16(Or16(At(buf, offset), ShiftLeft(At(buf, offset + 1), 8)))

\* readInt16LE without the cast to int16_t
readInt16LE_NoSignCast(buf, offset) ==
    ToUInt16(Or16(At(buf, offset), ShiftLeft(At(buf, offset + 1), 8)))

\* readInt16LE taking the first byte as the high byte
readInt16LE_HighByteFirst(buf, offset) ==
    ToInt16(Or16(At(buf, offset + 1), ShiftLeft(At(buf, offset), 8)))

readInt16LE(buf, offset) ==
    ToInt16(Or16(At(buf, offset), ShiftLeft(At(buf, offset + 1), 8)))

(***************************************************************************)
(* Protocol constants                                                      *)
(***************************************************************************)
DS4_REPORT_ID_USB_INPUT == 1
DS4_REPORT_ID_USB_OUTPUT == 5
DS4_REPORT_ID_CALIBRATION == 2
DS4_USB_INPUT_REPORT_SIZE == 64
DS4_USB_OUTPUT_REPORT_SIZE == 32
DS4_CALIBRATION_REPORT_SIZE == 37
DS4_FLAG_STANDARD == 7
DS4DPadNorth == 0
DS4DPadNorthEast == 1
DS4DPadEast == 2
DS4DPadSouthEast == 3
DS4DPadSouth == 4
DS4DPadSouthWest == 5
DS4DPadWest == 6
DS4DPadNorthWest == 7
DS4DPadNeutral == 8

(***************************************************************************)
(* Input report decoder                                                    *)
(***************************************************************************)
\* ds4_input_state_init without the stores that follow its memset
ds4_input_state_init_MemsetOnly ==
    [ leftStick    |-> [x |-> 0, y |-> 0],
      rightStick   |-> [x |-> 0, y |-> 0],
      dpad         |-> DS4DPadNorth  ,
      buttons      |-> [ square |-> FALSE, cross |-> FALSE, circle |-> FALSE,
                         triangle |-> FALSE, l1 |-> FALSE, r1 |-> FALSE,
                         l2 |-> FALSE, r2 |-> FALSE, share |-> FALSE,
                         options |-> FALSE, l3 |-> FALSE, r3 |-> FALSE,
                         ps |-> FALSE, touchpadClick |-> FALSE ],
      l2Trigger    |-> 0,
      r2Trigger    |-> 0,
      touchpad     |-> [ packetCount |-> 0, packetCounter |-> 0,
                         touch0 |-> [active |-> FALSE, trackingID |-> 0,
                                     x |-> 0, y |-> 0],
                         touch1 |-> [active |-> FALSE, trackingID |-> 0,
                                     x |-> 0, y |-> 0] ],
      imu          |-> [ gyroPitch |-> 0, gyroYaw |-> 0, gyroRoll |-> 0,
                         accelX |-> 0, accelY |-> 0, accelZ |-> 0 ],
      battery      |-> [ level |-> 0, cableConnected |-> FALSE,
                         headphones |-> FALSE, microphone |-> FALSE ],
      timestamp    |-> 0,
      frameCounter |-> 0 ]

\* memset(state, 0, sizeof) followed by the non-zero defaults
ds4_input_state_init ==
    [ leftStick    |-> [x |-> 128, y |-> 128],
      rightStick   |-> [x |-> 128, y |-> 128],
      dpad         |-> DS4DPadNeutral,
      buttons      |-> [ square |-> FALSE, cross |-> FALSE, circle |-> FALSE,
                         triangle |-> FALSE, l1 |-> FALSE, r1 |-> FALSE,
                         l2 |-> FALSE, r2 |-> FALSE, share |-> FALSE,
                         options |-> FALSE, l3 |-> FALSE, r3 |-> FALSE,
                         ps |-> FALSE, touchpadClick |-> FALSE ],
      l2Trigger    |-> 0,
      r2Trigger    |-> 0,
      touchpad     |-> [ packetCount |-> 0, packetCounter |-> 0,
                         touch0 |-> [active |-> FALSE, trackingID |-> 0,
                                     x |-> 0, y |-> 0],
                         touch1 |-> [active |-> FALSE, trackingID |-> 0,
                                     x |-> 0, y |-> 0] ],
      imu          |-> [ gyroPitch |-> 0, gyroYaw |-> 0, gyroRoll |-> 0,
                         accelX |-> 0, accelY |-> 0, accelZ |-> 0 ],
      battery      |-> [ level |-> 0, cableConnected |-> FALSE,
                         headphones |-> FALSE, microphone |-> FALSE ],
      timestamp    |-> 0,
      frameCounter |-> 0 ]

\* the finger record with the two nibbles of its third byte exchanged
TouchFinger_NibblesSwapped(buf, b) ==
    [ active     |-> And16(At(buf, b), 128) = 0,
      trackingID |-> And16(At(buf, b), 127),
      x          |-> ToUInt16(Or16(At(buf, b + 1),
                                   ShiftLeft(ShiftRight(At(buf, b + 2), 4), 8))),
      y          |-> ToUInt16(Or16(And16(At(buf, b + 2), 15),
                                   ShiftLeft(At(buf, b + 3), 4))) ]

\* the finger record with X taking the whole third byte as its high part
TouchFinger_UnmaskedX(buf, b) ==
    [ active     |-> And16(At(buf, b), 128) = 0,
      trackingID |-> And16(At(buf, b), 127),
      x          |-> ToUInt16(Or16(At(buf, b + 1),
                                   ShiftLeft(At(buf, b + 2), 8))),
      y          |-> ToUInt16(Or16(ShiftRight(At(buf, b + 2), 4),
                                   ShiftLeft(At(buf, b + 3), 4))) ]

\* the finger record with active true when bit 7 is set
TouchFinger_ActiveNotInverted(buf, b) ==
    [ active     |-> And16(At(buf, b), 128) # 0,
      trackingID |-> And16(At(buf, b), 127),
      x          |-> ToUInt16(Or16(At(buf, b + 1),
                                   ShiftLeft(And16(At(buf, b + 2), 15), 8))),
      y          |-> ToUInt16(Or16(ShiftRight(At(buf, b + 2), 4),
                                   ShiftLeft(At(buf, b + 3), 4))) ]

\* one 4-byte finger record at buf[b..b+3]
TouchFinger(buf, b) ==
    [ active     |-> And16(At(buf, b), 128) = 0,
      trackingID |-> And16(At(buf, b), 127),
      x          |-> ToUInt16(Or16(At(buf, b + 1),
                                   ShiftLeft(And16(At(buf, b + 2), 15), 8))),
      y          |-> ToUInt16(Or16(ShiftRight(At(buf, b + 2), 4),
                                   ShiftLeft(At(buf, b + 3), 4))) ]

\* parseControllerState storing the D-pad nibble without the comparison
parseControllerState_DPadUnclamped(buf, o, st) ==
    LET dpadRaw     == And16(At(buf, o + 4), 15)
        batteryByte == At(buf, o + 29)
    IN  [ st EXCEPT
            !.leftStick    = [x |-> At(buf, o + 0), y |-> At(buf, o + 1)],
            !.rightStick   = [x |-> At(buf, o + 2), y |-> At(buf, o + 3)],
            !.dpad         = dpadRaw,
            !.buttons      =
                [ square        |-> And16(At(buf, o + 4), 16) # 0,
                  cross         |-> And16(At(buf, o + 4), 32) # 0,
                  circle        |-> And16(At(buf, o + 4), 64) # 0,
                  triangle      |-> And16(At(buf, o + 4), 128) # 0,
                  l1            |-> And16(At(buf, o + 5), 1) # 0,
                  r1            |-> And16(At(buf, o + 5), 2) # 0,
                  l2            |-> And16(At(buf, o + 5), 4) # 0,
                  r2            |-> And16(At(buf, o + 5), 8) # 0,
                  share         |-> And16(At(buf, o + 5), 16) # 0,
                  options       |-> And16(At(buf, o + 5), 32) # 0,
                  l3            |-> And16(At(buf, o + 5), 64) # 0,
                  r3            |-> And16(At(buf, o + 5), 128) # 0,
                  ps            |-> And16(At(buf, o + 6), 1) # 0,
                  touchpadClick |-> And16(At(buf, o + 6), 2) # 0 ],
            !.frameCounter = ShiftRight(And16(At(buf, o + 6), 252), 2),
            !.l2Trigger    = At(buf, o + 7),
            !.r2Trigger    = At(buf, o + 8),
            !.timestamp    = readUInt16LE(buf, o + 9),
            !.imu          =
                [ gyroPitch |-> readInt16LE(buf, o + 12),
                  gyroYaw   |-> readInt16LE(buf, o + 14),
                  gyroRoll  |-> readInt16LE(buf, o + 16),
                  accelX    |-> readInt16LE(buf, o + 18),
                  accelY    |-> readInt16LE(buf, o + 20),
                  accelZ    |-> readInt16LE(buf, o + 22) ],
            !.battery      =
                [ level          |-> And16(batteryByte, 15),
                  cableConnected |-> And16(batteryByte, 16) # 0,
                  headphones     |-> And16(batteryByte, 32) # 0,
                  microphone     |-> And16(batteryByte, 64) # 0 ],
            !.touchpad     =
                [ packetCount   |-> At(buf, o + 32),
                  packetCounter |-> At(buf, o + 33),
                  touch0        |-> TouchFinger(buf, o + 34),
                  touch1        |-> TouchFinger(buf, o + 38) ] ]

\* parseControllerState testing the L1 mask for R1 as well
parseControllerState_R1SharesBit(buf, o, st) ==
    LET dpadRaw     == And16(At(buf, o + 4), 15)
        batteryByte == At(buf, o + 29)
    IN  [ st EXCEPT
            !.leftStick    = [x |-> At(buf, o + 0), y |-> At(buf, o + 1)],
            !.rightStick   = [x |-> At(buf, o + 2), y |-> At(buf, o + 3)],
            !.dpad         = IF dpadRaw <= DS4DPadNorthWest
                             THEN dpadRaw ELSE DS4DPadNeutral,
            !.buttons      =
                [ square        |-> And16(At(buf, o + 4), 16) # 0,
                  cross         |-> And16(At(buf, o + 4), 32) # 0,
                  circle        |-> And16(At(buf, o + 4), 64) # 0,
                  triangle      |-> And16(At(buf, o + 4), 128) # 0,
                  l1            |-> And16(At(buf, o + 5), 1) # 0,
                  r1            |-> And16(At(buf, o + 5), 1) # 0,
                  l2            |-> And16(At(buf, o + 5), 4) # 0,
                  r2            |-> And16(At(buf, o + 5), 8) # 0,
                  share         |-> And16(At(buf, o + 5), 16) # 0,
                  options       |-> And16(At(buf, o + 5), 32) # 0,
                  l3            |-> And16(At(buf, o + 5), 64) # 0,
                  r3            |-> And16(At(buf, o + 5), 128) # 0,
                  ps            |-> And16(At(buf, o + 6), 1) # 0,
                  touchpadClick |-> And16(At(buf, o + 6), 2) # 0 ],
            !.frameCounter = ShiftRight(And16(At(buf, o + 6), 252), 2),
            !.l2Trigger    = At(buf, o + 7),
            !.r2Trigger    = At(buf, o + 8),
            !.timestamp    = readUInt16LE(buf, o + 9),
            !.imu          =
                [ gyroPitch |-> readInt16LE(buf, o + 12),
                  gyroYaw   |-> readInt16LE(buf, o + 14),
                  gyroRoll  |-> readInt16LE(buf, o + 16),
                  accelX    |-> readInt16LE(buf, o + 18),
                  accelY    |-> readInt16LE(buf, o + 20),
                  accelZ    |-> readInt16LE(buf, o + 22) ],
            !.battery      =
                [ level          |-> And16(batteryByte, 15),
                  cableConnected |-> And16(batteryByte, 16) # 0,
                  headphones     |-> And16(batteryByte, 32) # 0,
                  microphone     |-> And16(batteryByte, 64) # 0 ],
            !.touchpad     =
                [ packetCount   |-> At(buf, o + 32),
                  packetCounter |-> At(buf, o + 33),
                  touch0        |-> TouchFinger(buf, o + 34),
                  touch1        |-> TouchFinger(buf, o + 38) ] ]

\* parseControllerState taking the battery byte one position early
parseControllerState_BatteryFromExtension(buf, o, st) ==
    LET dpadRaw     == And16(At(buf, o + 4), 15)
        batteryByte == At(buf, o + 28)
    IN  [ st EXCEPT
            !.leftStick    = [x |-> At(buf, o + 0), y |-> At(buf, o + 1)],
            !.rightStick   = [x |-> At(buf, o + 2), y |-> At(buf, o + 3)],
            !.dpad         = IF dpadRaw <= DS4DPadNorthWest
                             THEN dpadRaw ELSE DS4DPadNeutral,
            !.buttons      =
                [ square        |-> And16(At(buf, o + 4), 16) # 0,
                  cross         |-> And16(At(buf, o + 4), 32) # 0,
                  circle        |-> And16(At(buf, o + 4), 64) # 0,
                  triangle      |-> And16(At(buf, o + 4), 128) # 0,
                  l1            |-> And16(At(buf, o + 5), 1) # 0,
                  r1            |-> And16(At(buf, o + 5), 2) # 0,
                  l2            |-> And16(At(buf, o + 5), 4) # 0,
                  r2            |-> And16(At(buf, o + 5), 8) # 0,
                  share         |-> And16(At(buf, o + 5), 16) # 0,
                  options       |-> And16(At(buf, o + 5), 32) # 0,
                  l3            |-> And16(At(buf, o + 5), 64) # 0,
                  r3            |-> And16(At(buf, o + 5), 128) # 0,
                  ps            |-> And16(At(buf, o + 6), 1) # 0,
                  touchpadClick |-> And16(At(buf, o + 6), 2) # 0 ],
            !.frameCounter = ShiftRight(And16(At(buf, o + 6), 252), 2),
            !.l2Trigger    = At(buf, o + 7),
            !.r2Trigger    = At(buf, o + 8),
            !.timestamp    = readUInt16LE(buf, o + 9),
            !.imu          =
                [ gyroPitch |-> readInt16LE(buf, o + 12),
                  gyroYaw   |-> readInt16LE(buf, o + 14),
                  gyroRoll  |-> readInt16LE(buf, o + 16),
                  accelX    |-> readInt16LE(buf, o + 18),
                  accelY    |-> readInt16LE(buf, o + 20),
                  accelZ    |-> readInt16LE(buf, o + 22) ],
            !.battery      =
                [ level          |-> And16(batteryByte, 15),
                  cableConnected |-> And16(batteryByte, 16) # 0,
                  headphones     |-> And16(batteryByte, 32) # 0,
                  microphone     |-> And16(batteryByte, 64) # 0 ],
            !.touchpad     =
                [ packetCount   |-> At(buf, o + 32),
                  packetCounter |-> At(buf, o + 33),
                  touch0        |-> TouchFinger(buf, o + 34),
                  touch1        |-> TouchFinger(buf, o + 38) ] ]

\* the fields parseControllerState assigns, written over st
parseControllerState(buf, o, st) ==
    LET dpadRaw     == And16(At(buf, o + 4), 15)
        batteryByte == At(buf, o + 29)
    IN  [ st EXCEPT
            !.leftStick    = [x |-> At(buf, o + 0), y |-> At(buf, o + 1)],
            !.rightStick   = [x |-> At(buf, o + 2), y |-> At(buf, o + 3)],
            !.dpad         = IF dpadRaw <= DS4DPadNorthWest
                             THEN dpadRaw ELSE DS4DPadNeutral,
            !.buttons      =
                [ square        |-> And16(At(buf, o + 4), 16) # 0,
                  cross         |-> And16(At(buf, o + 4), 32) # 0,
                  circle        |-> And16(At(buf, o + 4), 64) # 0,
                  triangle      |-> And16(At(buf, o + 4), 128) # 0,
                  l1            |-> And16(At(buf, o + 5), 1) # 0,
                  r1            |-> And16(At(buf, o + 5), 2) # 0,
                  l2            |-> And16(At(buf, o + 5), 4) # 0,
                  r2            |-> And16(At(buf, o + 5), 8) # 0,
                  share         |-> And16(At(buf, o + 5), 16) # 0,
                  options       |-> And16(At(buf, o + 5), 32) # 0,
                  l3            |-> And16(At(buf, o + 5), 64) # 0,
                  r3            |-> And16(At(buf, o + 5), 128) # 0,
                  ps            |-> And16(At(buf, o + 6), 1) # 0,
                  touchpadClick |-> And16(At(buf, o + 6), 2) # 0 ],
            !.frameCounter = ShiftRight(And16(At(buf, o + 6), 252), 2),
            !.l2Trigger    = At(buf, o + 7),
            !.r2Trigger    = At(buf, o + 8),
            !.timestamp    = readUInt16LE(buf, o + 9),
            !.imu          =
                [ gyroPitch |-> readInt16LE(buf, o + 12),
                  gyroYaw   |-> readInt16LE(buf, o + 14),
                  gyroRoll  |-> readInt16LE(buf, o + 16),
                  accelX    |-> readInt16LE(buf, o + 18),
                  accelY    |-> readInt16LE(buf, o + 20),
                  accelZ    |-> readInt16LE(buf, o + 22) ],
            !.battery      =
                [ level          |-> And16(batteryByte, 15),
                  cableConnected |-> And16(batteryByte, 16) # 0,
                  headphones     |-> And16(batteryByte, 32) # 0,
                  microphone     |-> And16(batteryByte, 64) # 0 ],
            !.touchpad     =
                [ packetCount   |-> At(buf, o + 32),
                  packetCounter |-> At(buf, o + 33),
                  touch0        |-> TouchFinger(buf, o + 34),
                  touch1        |-> TouchFinger(buf, o + 38) ] ]

\* the buffer indices parseControllerState dereferences: o+0..o+10,
\* o+12..o+23, o+29 and o+32..o+41 (o+11, o+24..o+28, o+30..o+31 skipped)
parseControllerStateReads(o) ==
    { o + k : k \in (0..10) \cup (12..23) \cup {29} \cup (32..41) }

\* The result of one decoder call: the return value, the caller's record
\* after the call, the check that returned ("null", "length", "id", or
\* "none" on success) and the buffer indices dereferenced.
Returned(r, o, e, rd) == [ret |-> r, out |-> o, exit |-> e, reads |-> rd]

\* ds4_parse_usb_input_report with the length check off by one
ds4_parse_usb_input_report_OffByOne(d, len, out) ==
    IF d.null \/ out.null
    THEN Returned(FALSE, out, "null", {})
    ELSE IF len < DS4_USB_INPUT_REPORT_SIZE - 1
    THEN Returned(FALSE, out, "length", {})
    ELSE IF At(d.v, 0) # DS4_REPORT_ID_USB_INPUT
    THEN Returned(FALSE, out, "id", {0})
    ELSE Returned(TRUE,
                  Ptr(parseControllerState(d.v, 1, ds4_input_state_init)),
                  "none", {0} \cup parseControllerStateReads(1))

\* ds4_parse_usb_input_report resetting the record before the report ID check
ds4_parse_usb_input_report_InitFirst(d, len, out) ==
    IF d.null \/ out.null
    THEN Returned(FALSE, out, "null", {})
    ELSE IF len < DS4_USB_INPUT_REPORT_SIZE
    THEN Returned(FALSE, out, "length", {})
    ELSE IF At(d.v, 0) # DS4_REPORT_ID_USB_INPUT
    THEN Returned(FALSE, Ptr(ds4_input_state_init), "id", {0})
    ELSE Returned(TRUE,
                  Ptr(parseControllerState(d.v, 1, ds4_input_state_init)),
                  "none", {0} \cup parseControllerStateReads(1))

\* ds4_parse_usb_input_report writing over the record as it is, and the
\* second finger only when the packet count is above one
ds4_parse_usb_input_report_KeepsSecondFinger(d, len, out) ==
    IF d.null \/ out.null
    THEN Returned(FALSE, out, "null", {})
    ELSE IF len < DS4_USB_INPUT_REPORT_SIZE
    THEN Returned(FALSE, out, "length", {})
    ELSE IF At(d.v, 0) # DS4_REPORT_ID_USB_INPUT
    THEN Returned(FALSE, out, "id", {0})
    ELSE Returned(TRUE,
                  Ptr(IF At(d.v, 33) > 1
                      THEN parseControllerState(d.v, 1, out.v)
                      ELSE [ parseControllerState(d.v, 1, out.v) EXCEPT
                               !.touchpad.touch1 = out.v.touchpad.touch1 ]),
                  "none", {0} \cup parseControllerStateReads(1))

ds4_parse_usb_input_report(d, len, out) ==
    IF d.null \/ out.null
    THEN Returned(FALSE, out, "null", {})
    ELSE IF len < DS4_USB_INPUT_REPORT_SIZE
    THEN Returned(FALSE, out, "length", {})
    ELSE IF At(d.v, 0) # DS4_REPORT_ID_USB_INPUT
    THEN Returned(FALSE, out, "id", {0})
    ELSE Returned(TRUE,
                  Ptr(parseControllerState(d.v, 1, ds4_input_state_init)),
                  "none", {0} \cup parseControllerStateReads(1))


(***************************************************************************)
(* Calibration record decoder                                              *)
(***************************************************************************)
\* ds4_calibration_data_init leaving the record marked valid
ds4_calibration_data_init_MarkedValid ==
    [ gyroPitchBias |-> 0, gyroYawBias |-> 0, gyroRollBias |-> 0,
      gyroPitchPlus |-> 0, gyroPitchMinus |-> 0,
      gyroYawPlus |-> 0, gyroYawMinus |-> 0,
      gyroRollPlus |-> 0, gyroRollMinus |-> 0,
      gyroSpeedPlus |-> 0, gyroSpeedMinus |-> 0,
      accelXPlus |-> 0, accelXMinus |-> 0,
      accelYPlus |-> 0, accelYMinus |-> 0,
      accelZPlus |-> 0, accelZMinus |-> 0,
      isValid |-> TRUE ]

\* memset(cal, 0, sizeof); cal->isValid = false
ds4_calibration_data_init ==
    [ gyroPitchBias |-> 0, gyroYawBias |-> 0, gyroRollBias |-> 0,
      gyroPitchPlus |-> 0, gyroPitchMinus |-> 0,
      gyroYawPlus |-> 0, gyroYawMinus |-> 0,
      gyroRollPlus |-> 0, gyroRollMinus |-> 0,
      gyroSpeedPlus |-> 0, gyroSpeedMinus |-> 0,
      accelXPlus |-> 0, accelXMinus |-> 0,
      accelYPlus |-> 0, accelYMinus |-> 0,
      accelZPlus |-> 0, accelZMinus |-> 0,
      isValid |-> FALSE ]

\* the validation with the accel Y pair tested twice and accel Z never
CalibrationIsValid_AccelZUntested(c) ==
    /\ (ToInt32(c.gyroPitchPlus) - ToInt32(c.gyroPitchMinus)) # 0
    /\ (ToInt32(c.gyroYawPlus)   - ToInt32(c.gyroYawMinus))   # 0
    /\ (ToInt32(c.gyroRollPlus)  - ToInt32(c.gyroRollMinus))  # 0
    /\ (ToInt32(c.accelXPlus)    - ToInt32(c.accelXMinus))    # 0
    /\ (ToInt32(c.accelYPlus)    - ToInt32(c.accelYMinus))    # 0
    /\ (ToInt32(c.accelYPlus)    - ToInt32(c.accelYMinus))    # 0

\* the validation of all denominators, each difference taken in int32_t
CalibrationIsValid(c) ==
    /\ (ToInt32(c.gyroPitchPlus) - ToInt32(c.gyroPitchMinus)) # 0
    /\ (ToInt32(c.gyroYawPlus)   - ToInt32(c.gyroYawMinus))   # 0
    /\ (ToInt32(c.gyroRollPlus)  - ToInt32(c.gyroRollMinus))  # 0
    /\ (ToInt32(c.accelXPlus)    - ToInt32(c.accelXMinus))    # 0
    /\ (ToInt32(c.accelYPlus)    - ToInt32(c.accelYMinus))    # 0
    /\ (ToInt32(c.accelZPlus)    - ToInt32(c.accelZMinus))    # 0

\* the field assignments of ds4_parse_usb_calibration after its checks
ParseCalibrationFields(d) ==
    LET c == [ ds4_calibration_data_init EXCEPT
                 !.gyroPitchBias  = readInt16LE(d, 1),
                 !.gyroYawBias    = readInt16LE(d, 3),
                 !.gyroRollBias   = readInt16LE(d, 5),
                 !.gyroPitchPlus  = readInt16LE(d, 7),
                 !.gyroPitchMinus = readInt16LE(d, 9),
                 !.gyroYawPlus    = readInt16LE(d, 11),
                 !.gyroYawMinus   = readInt16LE(d, 13),
                 !.gyroRollPlus   = readInt16LE(d, 15),
                 !.gyroRollMinus  = readInt16LE(d, 17),
                 !.gyroSpeedPlus  = readInt16LE(d, 19),
                 !.gyroSpeedMinus = readInt16LE(d, 21),
                 !.accelXPlus     = readInt16LE(d, 23),
                 !.accelXMinus    = readInt16LE(d, 25),
                 !.accelYPlus     = readInt16LE(d, 27),
                 !.accelYMinus    = readInt16LE(d, 29),
                 !.accelZPlus     = readInt16LE(d, 31),
                 !.accelZMinus    = readInt16LE(d, 33) ]
    IN  [c EXCEPT !.isValid = CalibrationIsValid(c)]

\* the buffer indices the field assignments dereference: 17 readInt16LE
\* calls at the odd offsets 1..33, each reading offset and offset + 1
ParseCalibrationReads ==
    UNION { {1 + 2 * k, 1 + 2 * k + 1} : k \in 0..16 }

\* ds4_parse_usb_calibration without the report ID check
ds4_parse_usb_calibration_NoIdCheck(d, len, out) ==
    IF d.null \/ out.null
    THEN Returned(FALSE, out, "null", {})
    ELSE IF len < DS4_CALIBRATION_REPORT_SIZE
    THEN Returned(FALSE, out, "length", {})
    ELSE Returned(TRUE, Ptr(ParseCalibrationFields(d.v)),
                  "none", ParseCalibrationReads)

ds4_parse_usb_calibration(d, len, out) ==
    IF d.null \/ out.null
    THEN Returned(FALSE, out, "null", {})
    ELSE IF len < DS4_CALIBRATION_REPORT_SIZE
    THEN Returned(FALSE, out, "length", {})
    ELSE IF At(d.v, 0) # DS4_REPORT_ID_CALIBRATION
    THEN Returned(FALSE, out, "id", {0})
    ELSE Returned(TRUE, Ptr(ParseCalibrationFields(d.v)),
                  "none", {0} \cup ParseCalibrationReads)


(***************************************************************************)
(* The decoder harness: a caller that owns a buffer and the two output     *)
(* records and calls the decoders on them.                                 *)
(***************************************************************************)
\* Buffers may be up to MaxExtra bytes longer than the format requires.
MaxExtra == 1

\* A caller makes at most MaxCalls decoder calls in a row.
MaxCalls == 2

\* the lengths around the two format minima
Lens ==
    { 0, 1,
      DS4_CALIBRATION_REPORT_SIZE - 1, DS4_CALIBRATION_REPORT_SIZE,
      DS4_CALIBRATION_REPORT_SIZE + MaxExtra,
      DS4_USB_INPUT_REPORT_SIZE - 1, DS4_USB_INPUT_REPORT_SIZE,
      DS4_USB_INPUT_REPORT_SIZE + MaxExtra }

\* leading bytes: the three report IDs of the protocol, and two that are none
Tags == { 0, DS4_REPORT_ID_USB_INPUT, DS4_REPORT_ID_CALIBRATION,
          DS4_REPORT_ID_USB_OUTPUT, 255 }

\* the two bytes of a 16-bit value, low byte first
LowByte(v) == (v % 65536) % 256

HighByte(v) == (v % 65536) \div 256

\* payload patterns for the bytes after the tag: a ramp, an idle
\* controller (sticks centred, everything else zero), all bits set
Pattern(kind, i) ==
    CASE kind = "ramp" -> (7 * i + 3) % 256
      [] kind = "idle" -> IF i \in 1..4 THEN 128 ELSE 0
      [] kind = "ones" -> 255

\* a buffer of n bytes: the tag, then the payload pattern
TaggedBuffer(n, tag, kind) ==
    [i \in 0..(n - 1) |-> IF i = 0 THEN tag ELSE Pattern(kind, i)]

\* a calibration payload: the 17 values vals[1..17] at the odd offsets
\* 1, 3, .., 33, low byte first, then the two trailing bytes
CalPattern(vals, tail) ==
    [i \in 1..(DS4_CALIBRATION_REPORT_SIZE + MaxExtra) |->
        IF i <= 34
        THEN IF i % 2 = 1 THEN LowByte(vals[(i + 1) \div 2])
                          ELSE HighByte(vals[i \div 2])
        ELSE tail]

\* Calibration values in wire order: bias pitch, yaw, roll; gyro
\* pitch +/-, yaw +/-, roll +/-; speed +/-; accel X +/-, Y +/-, Z +/-.
\* All six plus/minus pairs differ; the two speeds are equal.
BaseCal ==
    << -3, 5, -7,  1000, -1000,  32767, -32768,  -500, 500,
       540, 540,  8192, -8192,  -32768, 32767,  1, -1 >>

\* the position in wire order of the plus value of pair p (1..6)
PlusIndex(p) == IF p <= 3 THEN 2 + 2 * p ELSE 4 + 2 * p

\* vals with the minus value of every pair in ps set to its plus value
WithEqualPairs(vals, ps) ==
    [k \in 1..17 |->
        IF \E p \in ps : k = PlusIndex(p) + 1 THEN vals[k - 1] ELSE vals[k]]

CalVectors ==
    { WithEqualPairs(BaseCal, ps) :
        ps \in {{}} \cup {{p} : p \in 1..6} \cup {{1, 4}, 1..6} }
    \cup { [k \in 1..17 |-> 0], [k \in 1..17 |-> -1],
           [k \in 1..17 |-> IF k \in {1, 2, 3, 10, 11} THEN 0
                            ELSE IF k % 2 = 0 THEN 32767 ELSE -32768] }

\* what a caller may hand to a decoder: [d |-> pointer, len |-> length]
Arg(bytes) == [d |-> Ptr(bytes), len |-> Cardinality(DOMAIN bytes)]

GenericBuffers ==
    { Arg(TaggedBuffer(n, tag, "ramp")) : n \in Lens \ {0}, tag \in Tags }
    \cup { Arg(TaggedBuffer(0, 0, "ramp")) }

InputBuffers ==
    { Arg(TaggedBuffer(n, DS4_REPORT_ID_USB_INPUT, "idle")) :
        n \in {DS4_USB_INPUT_REPORT_SIZE, DS4_USB_INPUT_REPORT_SIZE + MaxExtra} }
    \cup { Arg(TaggedBuffer(DS4_USB_INPUT_REPORT_SIZE, tag, "ones")) :
             tag \in {DS4_REPORT_ID_USB_INPUT, 255} }

CalibrationBuffers ==
    { Arg([i \in 0..(n - 1) |->
             IF i = 0 THEN DS4_REPORT_ID_CALIBRATION ELSE CalPattern(v, t)[i]]) :
        n \in {DS4_CALIBRATION_REPORT_SIZE, DS4_CALIBRATION_REPORT_SIZE + MaxExtra},
        v \in CalVectors, t \in {0, 255} }

Buffers ==
    GenericBuffers \cup InputBuffers \cup CalibrationBuffers
    \cup { [d |-> NULL, len |-> n] : n \in {0, DS4_USB_INPUT_REPORT_SIZE} }

\* output records whose contents are left over from earlier use
StaleInputState ==
    [ ds4_input_state_init EXCEPT
        !.leftStick = [x |-> 1, y |-> 2], !.rightStick = [x |-> 3, y |-> 4],
        !.dpad = 3, !.buttons.cross = TRUE, !.buttons.ps = TRUE,
        !.l2Trigger = 77, !.r2Trigger = 78,
        !.touchpad.packetCount = 2, !.touchpad.packetCounter = 9,
        !.touchpad.touch0 = [active |-> TRUE, trackingID |-> 5,
                             x |-> 1919, y |-> 942],
        !.touchpad.touch1.active = TRUE,
        !.imu.gyroYaw = -5, !.imu.accelZ = 8192,
        !.battery.level = 9, !.battery.cableConnected = TRUE,
        !.timestamp = 4660, !.frameCounter = 63 ]

StaleCalibration ==
    [ ds4_calibration_data_init EXCEPT
        !.gyroPitchBias = 11, !.gyroYawPlus = 22, !.gyroYawMinus = -22,
        !.gyroSpeedPlus = 33, !.accelZMinus = -44, !.isValid = TRUE ]

NoCall == [fn |-> "none", ret |-> FALSE, exit |-> "none", reads |-> {}]

DecoderIdle ==
    /\ data = NULL
    /\ length = 0
    /\ outState = NULL
    /\ outCal = NULL
    /\ call = NoCall
    /\ log = <<>>

EncoderIdle ==
    /\ state = NULL
    /\ outReport = NULL

EngineIdle ==
    /\ raw = NULL
    /\ cal = NULL
    /\ calibrated = NULL

\* no DS4HIDDevice object exists
DeviceIdle ==
    /\ ivars = NULL
    /\ completion = [at |-> "idle", k |-> 0]
    /\ copier = [at |-> "idle", k |-> 0, calls |-> 0, ret |-> FALSE]
    /\ snapshot = NULL
    /\ properties = NULL
    /\ delivered = <<>>
    /\ forwarded = <<>>
    /\ pendingReads = 0
    /\ framework = <<>>

InitParse ==
    /\ pc = "ready"
    /\ \E b \in Buffers : data = b.d /\ length = b.len
    /\ outState \in {NULL, Ptr(ds4_input_state_init), Ptr(StaleInputState)}
    /\ outCal \in {NULL, Ptr(ds4_calibration_data_init), Ptr(StaleCalibration)}
    /\ call = NoCall
    /\ log = <<>>
    /\ EncoderIdle
    /\ EngineIdle
    /\ DeviceIdle

\* what the call leaves behind: the call record, and in the log the
\* return value, which is all the caller sees of the outcome
Record(fn, r) ==
    /\ call' = [fn |-> fn, ret |-> r.ret, exit |-> r.exit, reads |-> r.reads]
    /\ log' = Append(log, [fn |-> fn, exit |-> r.exit, ret |-> r.ret])
    /\ pc' = "returned"

ParseInput ==
    /\ pc = "ready"
    /\ LET r == ds4_parse_usb_input_report(data, length, outState)
       IN  /\ outState' = r.out
           /\ Record("input", r)
    /\ UNCHANGED <<data, length, outCal, encoderVars, engineVars, deviceVars>>

ParseCalibration ==
    /\ pc = "ready"
    /\ LET r == ds4_parse_usb_calibration(data, length, outCal)
       IN  /\ outCal' = r.out
           /\ Record("calibration", r)
    /\ UNCHANGED <<data, length, outState, encoderVars, engineVars, deviceVars>>

\* the caller turns to its next buffer, keeping its output records
NextCall ==
    /\ pc = "returned"
    /\ Len(log) < MaxCalls
    /\ \E b \in Buffers : data' = b.d /\ length' = b.len
    /\ call' = NoCall
    /\ pc' = "ready"
    /\ UNCHANGED <<outState, outCal, log, encoderVars, engineVars, deviceVars>>

NextParse == ParseInput \/ ParseCalibration \/ NextCall

SpecParse == InitParse /\ [][NextParse]_vars


(***************************************************************************)
(* Properties of the two decoders, checked under SpecParse                 *)
(***************************************************************************)
\* the last call was made with a buffer and an output record, both non-null
InputCalled == call.fn = "input" /\ ~data.null /\ ~outState.null

CalibrationCalled == call.fn = "calibration" /\ ~data.null /\ ~outCal.null

\* C1: a buffer shorter than the format minimum (64 for the input decoder,
\* 37 for the calibration decoder) is rejected by the length check (the
\* TooShort failure), and no byte of it has been read, byte 0 included.
C1_ShortBufferRejectedUnread ==
    /\ (InputCalled /\ length < 64)
         => (call.ret = FALSE /\ call.exit = "length" /\ call.reads = {})
    /\ (CalibrationCalled /\ length < 37)
         => (call.ret = FALSE /\ call.exit = "length" /\ call.reads = {})

\* C1 witness: the input decoder has rejected an empty buffer
C1_Witness_EmptyBufferRejected ==
    InputCalled /\ length = 0 /\ call.exit = "length" /\ call.ret = FALSE

\* the last call was given a long enough buffer with a wrong leading byte
WrongTag ==
    \/ InputCalled /\ length >= 64 /\ data.v[0] # 1
    \/ CalibrationCalled /\ length >= 37 /\ data.v[0] # 2

C3_FailedParseLeavesRecord ==
    [][ (pc = "ready" /\ pc' = "returned" /\ call'.ret = FALSE)
          => (outState' = outState /\ outCal' = outCal) ]_vars

\* C3 witness: the input decoder failed on a record with stale contents
C3_Witness_FailedOnStaleRecord ==
    /\ InputCalled
    /\ call.ret = FALSE
    /\ call.exit = "id"
    /\ outState = Ptr(StaleInputState)

\* the two bytes at offset o of the buffer as a signed 16-bit number
Signed16At(o) ==
    LET u == data.v[o] + 256 * data.v[o + 1]
    IN  IF u >= 32768 THEN u - 65536 ELSE u

\* the offsets of the plus values of the six plus/minus pairs: gyro pitch,
\* yaw, roll, accel X, Y, Z; each minus value follows two bytes later
PairOffsets == {7, 11, 15, 23, 27, 31}

\* C5: after a successful calibration decode isValid is true exactly when
\* in each of the six plus/minus pairs plus differs from minus, also for
\* pairs as far apart as 32767 and -32768; biases and speeds play no part.
C5_ValidIffAllPairsDiffer ==
    (CalibrationCalled /\ call.ret = TRUE)
      => (outCal.v.isValid
            <=> \A o \in PairOffsets : Signed16At(o) # Signed16At(o + 2))

\* C5 witness: a record with an extreme pair (32767, -32768), equal speed
\* references and all pairs different was decoded as valid
C5_Witness_ExtremePairValid ==
    /\ CalibrationCalled
    /\ call.ret = TRUE
    /\ outCal.v.isValid
    /\ outCal.v.gyroYawPlus = 32767
    /\ outCal.v.gyroYawMinus = -32768
    /\ outCal.v.gyroSpeedPlus = outCal.v.gyroSpeedMinus

\* C6: a buffer of at least 37 bytes starting with 0x02 decodes
\* successfully whether valid or not, every field is the signed 16-bit
\* little-endian value at its offset, and bytes 35 and 36 are never read.
C6_CalibrationFieldsAtOffsets ==
    (CalibrationCalled /\ length >= 37 /\ data.v[0] = 2)
      => /\ call.ret = TRUE
         /\ outCal.v.gyroPitchBias  = Signed16At(1)
         /\ outCal.v.gyroYawBias    = Signed16At(3)
         /\ outCal.v.gyroRollBias   = Signed16At(5)
         /\ outCal.v.gyroPitchPlus  = Signed16At(7)
         /\ outCal.v.gyroPitchMinus = Signed16At(9)
         /\ outCal.v.gyroYawPlus    = Signed16At(11)
         /\ outCal.v.gyroYawMinus   = Signed16At(13)
         /\ outCal.v.gyroRollPlus   = Signed16At(15)
         /\ outCal.v.gyroRollMinus  = Signed16At(17)
         /\ outCal.v.gyroSpeedPlus  = Signed16At(19)
         /\ outCal.v.gyroSpeedMinus = Signed16At(21)
         /\ outCal.v.accelXPlus     = Signed16At(23)
         /\ outCal.v.accelXMinus    = Signed16At(25)
         /\ outCal.v.accelYPlus     = Signed16At(27)
         /\ outCal.v.accelYMinus    = Signed16At(29)
         /\ outCal.v.accelZPlus     = Signed16At(31)
         /\ outCal.v.accelZMinus    = Signed16At(33)
         /\ call.reads \cap {35, 36} = {}
         /\ call.reads \subseteq 0..34

\* C6 witness: an invalid record with a negative bias and non-zero trailing
\* bytes was decoded successfully
C6_Witness_InvalidRecordDecoded ==
    /\ CalibrationCalled
    /\ call.ret = TRUE
    /\ ~outCal.v.isValid
    /\ outCal.v.gyroPitchBias = -3
    /\ outCal.v.accelZMinus = 1
    /\ data.v[35] = 255
    /\ data.v[36] = 255


(***************************************************************************)
(* Output report encoder                                                   *)
(***************************************************************************)
\* memset(state, 0, sizeof(DS4OutputState))
ds4_output_state_init ==
    [ rumbleHeavy |-> 0, rumbleLight |-> 0,
      ledRed |-> 0, ledGreen |-> 0, ledBlue |-> 0,
      flashOn |-> 0, flashOff |-> 0 ]

\* ds4_build_usb_output_report with the two motor bytes in struct order
ds4_build_usb_output_report_HeavyFirst(st, rep) ==
    [ [i \in DOMAIN rep |-> IF i < DS4_USB_OUTPUT_REPORT_SIZE THEN 0 ELSE rep[i]]
        EXCEPT ![0] = DS4_REPORT_ID_USB_OUTPUT,
               ![1] = DS4_FLAG_STANDARD,
               ![2] = 4,
               ![4] = st.rumbleHeavy,
               ![5] = st.rumbleLight,
               ![6] = st.ledRed,
               ![7] = st.ledGreen,
               ![8] = st.ledBlue,
               ![9] = st.flashOn,
               ![10] = st.flashOff ]

\* the report buffer rep after memset and the eleven byte assignments
ds4_build_usb_output_report(st, rep) ==
    [ [i \in DOMAIN rep |-> IF i < DS4_USB_OUTPUT_REPORT_SIZE THEN 0 ELSE rep[i]]
        EXCEPT ![0] = DS4_REPORT_ID_USB_OUTPUT,
               ![1] = DS4_FLAG_STANDARD,
               ![2] = 4,
               ![4] = st.rumbleLight,
               ![5] = st.rumbleHeavy,
               ![6] = st.ledRed,
               ![7] = st.ledGreen,
               ![8] = st.ledBlue,
               ![9] = st.flashOn,
               ![10] = st.flashOff ]

(***************************************************************************)
(* The encoder's callers: a direct call with any DS4OutputState, and the   *)
(* two user-client methods that build a report (DS4UserClient.cpp).        *)
(***************************************************************************)
\* values of one DS4OutputState byte
OutputByteVals == {0, 1, 255}

\* 64-bit scalar inputs of the user-client methods
ScalarInputs == {7, 511}

\* the report buffer before the call: a local array, not initialised
UninitialisedReports ==
    { [i \in 0..(DS4_USB_OUTPUT_REPORT_SIZE - 1) |-> b] : b \in {0, 170} }

InitOutput ==
    /\ pc = "ready"
    /\ state \in [ {"rumbleHeavy", "rumbleLight", "ledRed", "ledGreen",
                    "ledBlue", "flashOn", "flashOff"} -> OutputByteVals ]
    /\ outReport \in UninitialisedReports
    /\ DecoderIdle
    /\ EngineIdle
    /\ DeviceIdle

BuildOutputReport ==
    /\ pc = "ready"
    /\ outReport' = ds4_build_usb_output_report(state, outReport)
    /\ pc' = "returned"
    /\ UNCHANGED <<state, decoderVars, engineVars, deviceVars>>

\* setLightBar(r, g, b): a fresh output state with the LED colour, encoded
sSetLightBar ==
    /\ pc = "returned"
    /\ \E r, g, b \in ScalarInputs, rep \in UninitialisedReports :
         LET outputState == [ ds4_output_state_init EXCEPT
                                !.ledRed   = ToUInt8(And16(r, 255)),
                                !.ledGreen = ToUInt8(And16(g, 255)),
                                !.ledBlue  = ToUInt8(And16(b, 255)) ]
         IN  /\ state' = outputState
             /\ outReport' = ds4_build_usb_output_report(outputState, rep)
    /\ UNCHANGED <<pc, decoderVars, engineVars, deviceVars>>

\* setRumble(heavy, light): a fresh output state with the motors, encoded
sSetRumble ==
    /\ pc = "returned"
    /\ \E heavy, light \in ScalarInputs, rep \in UninitialisedReports :
         LET outputState == [ ds4_output_state_init EXCEPT
                                !.rumbleHeavy = ToUInt8(And16(heavy, 255)),
                                !.rumbleLight = ToUInt8(And16(light, 255)) ]
         IN  /\ state' = outputState
             /\ outReport' = ds4_build_usb_output_report(outputState, rep)
    /\ UNCHANGED <<pc, decoderVars, engineVars, deviceVars>>

NextOutput == BuildOutputReport \/ sSetLightBar \/ sSetRumble

SpecOutput == InitOutput /\ [][NextOutput]_vars

\* C4: the encoded report is exactly [0x05, 0x07, 0x04, 0x00, rumbleLight,
\* rumbleHeavy, ledRed, ledGreen, ledBlue, flashOn, flashOff, 21 zero
\* bytes]: 32 bytes, the weak motor before the strong one, and nothing
\* outside positions 4..10 depends on the state.
C4_OutputReportLayout ==
    pc = "returned"
      => /\ DOMAIN outReport = 0..31
         /\ \A i \in 0..31 :
              outReport[i] =
                IF i <= 10
                THEN << 5, 7, 4, 0, state.rumbleLight, state.rumbleHeavy,
                        state.ledRed, state.ledGreen, state.ledBlue,
                        state.flashOn, state.flashOff >>[i + 1]
                ELSE 0

\* C4 witness: a report built over a non-zero buffer from a state whose
\* seven bytes are not all equal, the light motor at 4 and the heavy at 5
C4_Witness_MotorsEncoded ==
    /\ pc = "returned"
    /\ state.rumbleLight = 1
    /\ state.rumbleHeavy = 255
    /\ state.flashOn = 1
    /\ state.flashOff = 255
    /\ outReport[4] = 1
    /\ outReport[5] = 255
    /\ outReport[31] = 0


(***************************************************************************)
(* Double arithmetic.  A double is the exact rational [neg, num, den]; num *)
(* and den are naturals of any size, written as little-endian sequences of *)
(* base-4096 digits without leading zeros (<<>> is 0), because a product   *)
(* such as 65535 * 65534 exceeds 32 bits.  A zero den is NaN or infinity.  *)
(***************************************************************************)
BigBase == 2 ^ 12

Abs(n) == IF n < 0 THEN -n ELSE n

RECURSIVE NatToBig(_)
NatToBig(n) ==
    IF n = 0 THEN <<>> ELSE <<n % BigBase>> \o NatToBig(n \div BigBase)

\* the sum of the digit products x[i] * y[k - i + 1] for i >= from
RECURSIVE DigitProducts(_, _, _, _)
DigitProducts(x, y, k, from) ==
    IF from > Len(x) THEN 0
    ELSE (IF (k - from + 1) \in 1..Len(y) THEN x[from] * y[k - from + 1] ELSE 0)
         + DigitProducts(x, y, k, from + 1)

\* the digits of the column sums c[k..], carries propagated
RECURSIVE Carried(_, _, _)
Carried(c, k, carry) ==
    IF k > Len(c)
    THEN NatToBig(carry)
    ELSE <<(c[k] + carry) % BigBase>>
         \o Carried(c, k + 1, (c[k] + carry) \div BigBase)

RECURSIVE Trimmed(_)
Trimmed(x) ==
    IF x # <<>> /\ x[Len(x)] = 0 THEN Trimmed(SubSeq(x, 1, Len(x) - 1)) ELSE x

BigMul(x, y) ==
    IF x = <<>> \/ y = <<>> THEN <<>>
    ELSE Trimmed(Carried([k \in 1..(Len(x) + Len(y) - 1) |->
                             DigitProducts(x, y, k, 1)], 1, 0))

\* (double)n
DFromInt(n) == [neg |-> n < 0, num |-> NatToBig(Abs(n)), den |-> NatToBig(1)]

\* the decimal literal n/d
DLiteral(n, d) == [neg |-> FALSE, num |-> NatToBig(n), den |-> NatToBig(d)]

\* x * y
DMul(x, y) ==
    [neg |-> x.neg # y.neg, num |-> BigMul(x.num, y.num),
     den |-> BigMul(x.den, y.den)]

\* x / y; dividing by zero leaves a zero denominator
DDiv(x, y) ==
    [neg |-> x.neg # y.neg, num |-> BigMul(x.num, y.den),
     den |-> BigMul(x.den, y.num)]

\* fabs(x)
DAbs(x) == [x EXCEPT !.neg = FALSE]

\* neither NaN nor an infinity
DIsFinite(x) == x.den # <<>>

(***************************************************************************)
(* IMU calibration engine                                                  *)
(***************************************************************************)
\* calibrateGyroAxis with raw - bias computed in int16_t
calibrateGyroAxis_Int16Difference(rawv, bias, plus, minus, speedPlus, speedMinus) ==
    LET denom == ToInt32(plus) - ToInt32(minus)
    IN  IF denom = 0
        THEN DFromInt(rawv)
        ELSE LET speed2x  == ToInt32(speedPlus) + ToInt32(speedMinus)
                 adjusted == ToInt16(rawv - bias)
             IN  DDiv(DMul(DFromInt(adjusted), DFromInt(speed2x)),
                      DFromInt(Abs(denom)))

calibrateGyroAxis(rawv, bias, plus, minus, speedPlus, speedMinus) ==
    LET denom == ToInt32(plus) - ToInt32(minus)
    IN  IF denom = 0
        THEN DFromInt(rawv)
        ELSE LET speed2x  == ToInt32(speedPlus) + ToInt32(speedMinus)
                 adjusted == ToInt32(rawv) - ToInt32(bias)
             IN  DDiv(DMul(DFromInt(adjusted), DFromInt(speed2x)),
                      DFromInt(Abs(denom)))

\* calibrateAccelAxis with plus + minus computed in int16_t
calibrateAccelAxis_Int16Sum(rawv, plus, minus) ==
    LET range == ToInt32(plus) - ToInt32(minus)
    IN  IF range = 0
        THEN DFromInt(rawv)
        ELSE LET center    == CDiv(ToInt16(plus + minus), 2)
                 halfRange == DAbs(DDiv(DFromInt(range), DLiteral(2, 1)))
             IN  DDiv(DFromInt(ToInt32(rawv) - center), halfRange)

\* calibrateAccelAxis without the test for a zero range
calibrateAccelAxis_NoZeroGuard(rawv, plus, minus) ==
    LET range     == ToInt32(plus) - ToInt32(minus)
        center    == CDiv(ToInt32(plus) + ToInt32(minus), 2)
        halfRange == DAbs(DDiv(DFromInt(range), DLiteral(2, 1)))
    IN  DDiv(DFromInt(ToInt32(rawv) - center), halfRange)

calibrateAccelAxis(rawv, plus, minus) ==
    LET range == ToInt32(plus) - ToInt32(minus)
    IN  IF range = 0
        THEN DFromInt(rawv)
        ELSE LET center    == CDiv(ToInt32(plus) + ToInt32(minus), 2)
                 halfRange == DAbs(DDiv(DFromInt(range), DLiteral(2, 1)))
             IN  DDiv(DFromInt(ToInt32(rawv) - center), halfRange)

\* the result record when cal->isValid: the six per-axis calls
CalibratedByReferences(r, c) ==
    [ gyroPitchDPS |-> calibrateGyroAxis(r.gyroPitch, c.gyroPitchBias,
                           c.gyroPitchPlus, c.gyroPitchMinus,
                           c.gyroSpeedPlus, c.gyroSpeedMinus),
      gyroYawDPS   |-> calibrateGyroAxis(r.gyroYaw, c.gyroYawBias,
                           c.gyroYawPlus, c.gyroYawMinus,
                           c.gyroSpeedPlus, c.gyroSpeedMinus),
      gyroRollDPS  |-> calibrateGyroAxis(r.gyroRoll, c.gyroRollBias,
                           c.gyroRollPlus, c.gyroRollMinus,
                           c.gyroSpeedPlus, c.gyroSpeedMinus),
      accelXG      |-> calibrateAccelAxis(r.accelX, c.accelXPlus, c.accelXMinus),
      accelYG      |-> calibrateAccelAxis(r.accelY, c.accelYPlus, c.accelYMinus),
      accelZG      |-> calibrateAccelAxis(r.accelZ, c.accelZPlus, c.accelZMinus) ]

\* the result record when !cal->isValid: the BMI055 nominal factors,
\* 16.4 LSB per deg/s and 8192 LSB per g
CalibratedByNominal(r) ==
    [ gyroPitchDPS |-> DDiv(DFromInt(r.gyroPitch), DLiteral(164, 10)),
      gyroYawDPS   |-> DDiv(DFromInt(r.gyroYaw), DLiteral(164, 10)),
      gyroRollDPS  |-> DDiv(DFromInt(r.gyroRoll), DLiteral(164, 10)),
      accelXG      |-> DDiv(DFromInt(r.accelX), DLiteral(8192, 1)),
      accelYG      |-> DDiv(DFromInt(r.accelY), DLiteral(8192, 1)),
      accelZG      |-> DDiv(DFromInt(r.accelZ), DLiteral(8192, 1)) ]

\* ds4_calibrate_imu without the fallback branch
ds4_calibrate_imu_NoFallback(rawp, calp, outp) ==
    IF rawp.null \/ calp.null \/ outp.null
    THEN outp
    ELSE Ptr(CalibratedByReferences(rawp.v, calp.v))

\* *outCal after the call
ds4_calibrate_imu(rawp, calp, outp) ==
    IF rawp.null \/ calp.null \/ outp.null
    THEN outp
    ELSE IF ~calp.v.isValid
    THEN Ptr(CalibratedByNominal(rawp.v))
    ELSE Ptr(CalibratedByReferences(rawp.v, calp.v))


(***************************************************************************)
(* Calibration harness: one call of ds4_calibrate_imu on a raw sample and  *)
(* a calibration record.  One axis, the focus, takes extreme and ordinary  *)
(* 16-bit values; the others share a background that is either ordinary or *)
(* has equal references.                                                   *)
(***************************************************************************)
\* the range of int16_t
Int16Min == -(2 ^ 15)
Int16Max == 2 ^ 15 - 1

GyroNames  == {"Pitch", "Yaw", "Roll"}
AccelNames == {"X", "Y", "Z"}

\* raw, bias and the two references of one gyroscope axis
GyroFocus ==
    [ raw   : {Int16Min, 1640, Int16Max},
      bias  : {Int16Min, 0, Int16Max},
      plus  : {Int16Min, -1, Int16Max},
      minus : {Int16Min, 1, Int16Max} ]

GyroBackground(equalRefs) ==
    [ raw |-> 1640, bias |-> 10, plus |-> IF equalRefs THEN -1000 ELSE 1000,
      minus |-> -1000 ]

SpeedVals == {Int16Min, 1, Int16Max}

\* raw and the two references of one accelerometer axis
AccelFocus ==
    [ raw   : {Int16Min, -1, 8192, Int16Max},
      plus  : {Int16Min, -1, 0, Int16Max},
      minus : {Int16Min, 1, Int16Max} ]

AccelBackground(equalRefs) ==
    [ raw |-> 8192, plus |-> IF equalRefs THEN -8100 ELSE 8000, minus |-> -8100 ]

\* the raw sample: the six IMU fields of DS4IMUState
RawSample(g, a) ==
    [ gyroPitch |-> g["Pitch"].raw, gyroYaw |-> g["Yaw"].raw,
      gyroRoll  |-> g["Roll"].raw,
      accelX    |-> a["X"].raw, accelY |-> a["Y"].raw, accelZ |-> a["Z"].raw ]

CalibrationRecord(g, a, sp, sm, valid) ==
    [ gyroPitchBias  |-> g["Pitch"].bias,  gyroYawBias  |-> g["Yaw"].bias,
      gyroRollBias   |-> g["Roll"].bias,
      gyroPitchPlus  |-> g["Pitch"].plus,  gyroPitchMinus |-> g["Pitch"].minus,
      gyroYawPlus    |-> g["Yaw"].plus,    gyroYawMinus   |-> g["Yaw"].minus,
      gyroRollPlus   |-> g["Roll"].plus,   gyroRollMinus  |-> g["Roll"].minus,
      gyroSpeedPlus  |-> sp,               gyroSpeedMinus |-> sm,
      accelXPlus     |-> a["X"].plus,      accelXMinus    |-> a["X"].minus,
      accelYPlus     |-> a["Y"].plus,      accelYMinus    |-> a["Y"].minus,
      accelZPlus     |-> a["Z"].plus,      accelZMinus    |-> a["Z"].minus,
      isValid        |-> valid ]

\* the result record as an earlier call left it
StaleCalibratedIMU ==
    [ gyroPitchDPS |-> DFromInt(7), gyroYawDPS |-> DFromInt(7),
      gyroRollDPS  |-> DFromInt(7),
      accelXG |-> DFromInt(7), accelYG |-> DFromInt(7), accelZG |-> DFromInt(7) ]

\* the (raw, cal) argument pairs with a gyroscope focus
GyroArguments ==
    UNION { { << Ptr(RawSample(g, [n \in AccelNames |-> AccelBackground(eq)])),
                 Ptr(CalibrationRecord(g,
                         [n \in AccelNames |-> AccelBackground(eq)],
                         sp, sm, valid)) >> :
                g \in { [n \in GyroNames |->
                            IF n = f THEN t ELSE GyroBackground(eq)] :
                          f \in GyroNames, t \in GyroFocus },
                sp \in SpeedVals, sm \in SpeedVals, valid \in BOOLEAN } :
            eq \in BOOLEAN }

\* the (raw, cal) argument pairs with an accelerometer focus
AccelArguments ==
    UNION { { << Ptr(RawSample([n \in GyroNames |-> GyroBackground(eq)], a)),
                 Ptr(CalibrationRecord([n \in GyroNames |-> GyroBackground(eq)],
                                       a, 540, 540, valid)) >> :
                a \in { [n \in AccelNames |->
                            IF n = f THEN t ELSE AccelBackground(eq)] :
                          f \in AccelNames, t \in AccelFocus },
                valid \in BOOLEAN } :
            eq \in BOOLEAN }

InitCalibrate ==
    /\ pc = "ready"
    /\ DecoderIdle
    /\ EncoderIdle
    /\ DeviceIdle
    /\ \/ /\ \E args \in GyroArguments \cup AccelArguments :
                raw = args[1] /\ cal = args[2]
          /\ calibrated = Ptr(StaleCalibratedIMU)
       \/ \E args \in { a \in AccelArguments :
                          a[1].v.accelX = 8192 /\ a[2].v.accelXPlus = 0 } :
             \E missing \in {"raw", "cal", "outCal"} :
                /\ raw = IF missing = "raw" THEN NULL ELSE args[1]
                /\ cal = IF missing = "cal" THEN NULL ELSE args[2]
                /\ calibrated = IF missing = "outCal" THEN NULL
                                ELSE Ptr(StaleCalibratedIMU)

Calibrate ==
    /\ pc = "ready"
    /\ calibrated' = ds4_calibrate_imu(raw, cal, calibrated)
    /\ pc' = "returned"
    /\ UNCHANGED <<raw, cal>>
    /\ UNCHANGED decoderVars
    /\ UNCHANGED encoderVars
    /\ UNCHANGED deviceVars

NextCalibrate == Calibrate

SpecCalibrate == InitCalibrate /\ [][NextCalibrate]_vars


(***************************************************************************)
(* Calibration engine properties                                           *)
(***************************************************************************)
\* the field names of each gyroscope axis
GyroAxes ==
    { [raw |-> "gyroPitch", bias |-> "gyroPitchBias", plus |-> "gyroPitchPlus",
       minus |-> "gyroPitchMinus", out |-> "gyroPitchDPS"],
      [raw |-> "gyroYaw", bias |-> "gyroYawBias", plus |-> "gyroYawPlus",
       minus |-> "gyroYawMinus", out |-> "gyroYawDPS"],
      [raw |-> "gyroRoll", bias |-> "gyroRollBias", plus |-> "gyroRollPlus",
       minus |-> "gyroRollMinus", out |-> "gyroRollDPS"] }

\* the field names of each accelerometer axis
AccelAxes ==
    { [raw |-> "accelX", plus |-> "accelXPlus", minus |-> "accelXMinus",
       out |-> "accelXG"],
      [raw |-> "accelY", plus |-> "accelYPlus", minus |-> "accelYMinus",
       out |-> "accelYG"],
      [raw |-> "accelZ", plus |-> "accelZPlus", minus |-> "accelZMinus",
       out |-> "accelZG"] }

\* a call with all three pointers present has returned
Calibrated ==
    pc = "returned" /\ ~raw.null /\ ~cal.null /\ ~calibrated.null

\* r * d = a * b over the rationals, for a finite r, a natural d and
\* integers a and b whose product need not fit 32 bits
ScaledEquals(r, d, a, b) ==
    /\ DIsFinite(r)
    /\ BigMul(r.num, NatToBig(d))
         = BigMul(BigMul(NatToBig(Abs(a)), NatToBig(Abs(b))), r.den)
    /\ (a # 0 /\ b # 0) => (r.neg <=> ((a < 0) # (b < 0)))

\* the axis has distinct references
Distinct(a) == cal.v[a.plus] # cal.v[a.minus]

GyroByFormula(a) ==
    ScaledEquals(calibrated.v[a.out],
                 Abs(cal.v[a.plus] - cal.v[a.minus]),
                 raw.v[a.raw] - cal.v[a.bias],
                 cal.v.gyroSpeedPlus + cal.v.gyroSpeedMinus)

\* (plus + minus) / 2, the quotient rounded toward zero
Center(a) ==
    LET sum == cal.v[a.plus] + cal.v[a.minus]
    IN  IF sum >= 0 THEN sum \div 2 ELSE -((-sum) \div 2)

AccelByFormula(a) ==
    ScaledEquals(calibrated.v[a.out],
                 Abs(cal.v[a.plus] - cal.v[a.minus]),
                 2, raw.v[a.raw] - Center(a))

RawUnconverted(a) == ScaledEquals(calibrated.v[a.out], 1, 1, raw.v[a.raw])

\* C7: with a valid record, every gyroscope axis whose references differ
\* has a result r with r * |plus - minus| = (raw - bias) * (speedPlus +
\* speedMinus); the difference, the sum and the product are the unwrapped
\* integers, and the sign of r is that of the product, whatever the sign of
\* plus - minus.
C7_GyroResultExact ==
    (Calibrated /\ cal.v.isValid) =>
        \A a \in GyroAxes : Distinct(a) => GyroByFormula(a)

\* raw - bias = 65535, speedPlus + speedMinus = 65534 and plus - minus =
\* -65535 on the pitch axis give 65534 degrees per second
C7_Witness_ProductBeyond32Bits ==
    /\ Calibrated /\ cal.v.isValid
    /\ raw.v.gyroPitch - cal.v.gyroPitchBias = 65535
    /\ cal.v.gyroSpeedPlus + cal.v.gyroSpeedMinus = 65534
    /\ cal.v.gyroPitchPlus - cal.v.gyroPitchMinus = -65535
    /\ ScaledEquals(calibrated.v.gyroPitchDPS, 1, 1, 65534)

\* C8: with a valid record, every accelerometer axis whose references
\* differ has a result r with r * |plus - minus| = 2 * (raw - center),
\* center being the unwrapped sum plus + minus halved toward zero.
C8_AccelResultExact ==
    (Calibrated /\ cal.v.isValid) =>
        \A a \in AccelAxes : Distinct(a) => AccelByFormula(a)

\* plus = -32768 and minus = 1 sum to -32767, odd and negative: the center
\* is -16383 and raw = -1 gives 2 * 16382 / 32769
C8_Witness_OddNegativeSum ==
    /\ Calibrated /\ cal.v.isValid
    /\ raw.v.accelX = -1
    /\ cal.v.accelXPlus = -32768 /\ cal.v.accelXMinus = 1
    /\ ScaledEquals(calibrated.v.accelXG, 32769, 2, 16382)

\* C9: with an invalid record, every gyroscope result r has r * 164 =
\* raw * 10 and every accelerometer result r has r * 8192 = raw, whatever
\* the other fields of the record hold.
C9_NominalFallback ==
    (Calibrated /\ ~cal.v.isValid) =>
        /\ \A a \in GyroAxes :
              ScaledEquals(calibrated.v[a.out], 164, 10, raw.v[a.raw])
        /\ \A a \in AccelAxes :
              ScaledEquals(calibrated.v[a.out], 8192, 1, raw.v[a.raw])

\* raw gyro 1640 gives 100 deg/s and raw accel 8192 gives 1 g under an
\* invalid record whose references are extreme and unequal
C9_Witness_NominalValues ==
    /\ Calibrated /\ ~cal.v.isValid
    /\ raw.v.gyroYaw = 1640 /\ raw.v.accelZ = 8192
    /\ cal.v.gyroPitchPlus = 32767 /\ cal.v.gyroPitchMinus = -32768
    /\ cal.v.gyroSpeedPlus = -32768
    /\ ScaledEquals(calibrated.v.gyroYawDPS, 1, 1, 100)
    /\ ScaledEquals(calibrated.v.accelZG, 1, 1, 1)

\* C10: every result a call leaves is finite; with a valid record, an axis
\* whose references are equal yields its raw value, and the axes next to it
\* whose references differ yield their formulas.
C10_NoDivisionByZero ==
    /\ (pc = "returned" /\ ~calibrated.null) =>
          \A a \in GyroAxes \cup AccelAxes : DIsFinite(calibrated.v[a.out])
    /\ (Calibrated /\ cal.v.isValid) =>
          /\ \A a \in GyroAxes \cup AccelAxes :
                ~Distinct(a) => RawUnconverted(a)
          /\ (\E d \in GyroAxes \cup AccelAxes : ~Distinct(d)) =>
                /\ \A a \in GyroAxes : Distinct(a) => GyroByFormula(a)
                /\ \A a \in AccelAxes : Distinct(a) => AccelByFormula(a)

\* a valid record whose Z references are both 32767 while those of X and
\* of yaw differ: Z is returned raw, X and yaw are calibrated
C10_Witness_EqualReferencesRaw ==
    /\ Calibrated /\ cal.v.isValid
    /\ cal.v.accelZPlus = 32767 /\ cal.v.accelZMinus = 32767
    /\ raw.v.accelZ = -32768
    /\ cal.v.accelXPlus = 8000 /\ cal.v.accelXMinus = 0 - 8100
    /\ cal.v.gyroYawPlus = 1000 /\ cal.v.gyroYawMinus = 0 - 1000
    /\ ScaledEquals(calibrated.v.accelZG, 1, 1, -32768)
    /\ ScaledEquals(calibrated.v.accelXG, 16100, 2, 8192 + 50)
    /\ ScaledEquals(calibrated.v.gyroYawDPS, 2000, 1630, 1080)

(***************************************************************************)
(* Field harness: the input decoder called on reports that vary one field  *)
(* group at a time, then called again on the same report or on a report    *)
(* that differs from it in the skipped positions only.                     *)
(***************************************************************************)
\* A caller decodes at most MaxDecodes reports in a row.
MaxDecodes == 2

\* buf with byte i set to v
With(buf, i, v) == [buf EXCEPT ![i] = v]

\* the reports the field groups are varied in: an idle controller of
\* exactly 64 bytes and a ramp that is MaxExtra bytes longer
IdleReport == TaggedBuffer(DS4_USB_INPUT_REPORT_SIZE, DS4_REPORT_ID_USB_INPUT, "idle")

RampReport ==
    TaggedBuffer(DS4_USB_INPUT_REPORT_SIZE + MaxExtra,
                 DS4_REPORT_ID_USB_INPUT, "ramp")

\* every value of each of the three button bytes buf[5], buf[6], buf[7]
ButtonReports == { With(IdleReport, i, v) : i \in {5, 6, 7}, v \in Byte }

\* byte pairs, low byte first: -1, -32768, 32767, 1, 256, 0x1234
WordBytes == { <<255, 255>>, <<0, 128>>, <<255, 127>>, <<1, 0>>, <<0, 1>>,
               <<52, 18>> }

\* the timestamp at buf[10..11] and the six IMU words at buf[13..24]
WordReports ==
    { With(With(b, i, w[1]), i + 1, w[2]) :
        b \in {IdleReport, RampReport}, i \in {10, 13, 15, 17, 19, 21, 23},
        w \in WordBytes }

\* the four bytes of one finger record
FingerBytes ==
    { <<b0, b1, b2, b3>> : b0 \in {0, 128, 127, 255, 5}, b1 \in {0, 127, 255},
                           b2 \in {0, 7, 15, 240, 255}, b3 \in {0, 58, 255} }

\* finger 0 at buf[35..38] and finger 1 at buf[39..42]
FingerReports ==
    { [i \in DOMAIN RampReport |->
          IF i \in f..(f + 3) THEN r[i - f + 1] ELSE RampReport[i]] :
        f \in {35, 39}, r \in FingerBytes }

FieldReports ==
    ButtonReports \cup WordReports \cup FingerReports
    \cup { IdleReport, RampReport,
           TaggedBuffer(DS4_USB_INPUT_REPORT_SIZE, DS4_REPORT_ID_USB_INPUT, "ones") }

\* the positions parseControllerState skips, and everything after the
\* second finger record
SkippedPositions(buf) ==
    { i \in DOMAIN buf : i \in {12} \cup (25..29) \cup (31..32) \/ i >= 43 }

\* buf with every skipped position overwritten, or cut to 64 bytes
Siblings(buf) ==
    { [i \in DOMAIN buf |->
          IF i \in SkippedPositions(buf)
          THEN CASE fill = "zero"  -> 0
                 [] fill = "ones"  -> 255
                 [] fill = "mixed" -> (37 * i + 11) % 256
          ELSE buf[i]] : fill \in {"zero", "ones", "mixed"} }
    \cup { [i \in 0..(DS4_USB_INPUT_REPORT_SIZE - 1) |-> buf[i]] }

\* a second output record holding other left-over contents
ScribbledInputState ==
    [ ds4_input_state_init EXCEPT
        !.leftStick = [x |-> 255, y |-> 0], !.rightStick = [x |-> 0, y |-> 255],
        !.dpad = 0,
        !.buttons = [f \in DOMAIN ds4_input_state_init.buttons |-> TRUE],
        !.l2Trigger = 255, !.r2Trigger = 255,
        !.touchpad.packetCount = 255, !.touchpad.packetCounter = 255,
        !.touchpad.touch0 = [active |-> FALSE, trackingID |-> 127,
                             x |-> 4095, y |-> 4095],
        !.touchpad.touch1 = [active |-> TRUE, trackingID |-> 1,
                             x |-> 1, y |-> 1],
        !.imu = [f \in DOMAIN ds4_input_state_init.imu |-> -1],
        !.battery = [level |-> 15, cableConnected |-> TRUE,
                     headphones |-> TRUE, microphone |-> TRUE],
        !.timestamp = 65535, !.frameCounter = 1 ]

StaleRecords == { StaleInputState, ScribbledInputState }

InitDecode ==
    /\ pc = "ready"
    /\ \E b \in FieldReports : data = Ptr(b) /\ length = Cardinality(DOMAIN b)
    /\ \E s \in StaleRecords : outState = Ptr(s)
    /\ outCal = NULL
    /\ call = NoCall
    /\ log = <<>>
    /\ EncoderIdle
    /\ EngineIdle
    /\ DeviceIdle

\* one call of ds4_parse_usb_input_report; the log keeps the report and
\* the record the call left
DecodeInput ==
    /\ pc = "ready"
    /\ \E r \in {ds4_parse_usb_input_report(data, length, outState)} :
          /\ outState' = r.out
          /\ call' = [fn |-> "input", ret |-> r.ret, exit |-> r.exit,
                      reads |-> r.reads]
          /\ log' = Append(log, [fn |-> "input", exit |-> r.exit,
                                 ret |-> r.ret, data |-> data.v,
                                 before |-> outState.v, out |-> r.out.v])
    /\ pc' = "returned"
    /\ UNCHANGED <<data, length, outCal, encoderVars, engineVars, deviceVars>>

\* the caller decodes the same report again, into the record as the first
\* call left it or into a record with other contents
DecodeAgain ==
    /\ pc = "returned"
    /\ Len(log) < MaxDecodes
    /\ \E s \in StaleRecords \cup {outState.v} :
          /\ s # log[Len(log)].before
          /\ outState' = Ptr(s)
    /\ call' = NoCall
    /\ pc' = "ready"
    /\ UNCHANGED <<data, length, outCal, log, encoderVars, engineVars,
                   deviceVars>>

\* the caller decodes a report that differs in the skipped positions only
DecodeSibling ==
    /\ pc = "returned"
    /\ Len(log) < MaxDecodes
    /\ \E b \in Siblings(data.v) \ {data.v} :
          /\ data' = Ptr(b)
          /\ length' = Cardinality(DOMAIN b)
    /\ call' = NoCall
    /\ pc' = "ready"
    /\ UNCHANGED <<outState, outCal, log, encoderVars, engineVars, deviceVars>>

NextDecode == DecodeInput \/ DecodeAgain \/ DecodeSibling

SpecDecode == InitDecode /\ [][NextDecode]_vars

(***************************************************************************)
(* Properties of the decoded fields, checked under SpecDecode.  Byte k of  *)
(* the report data is byte k + 1 of the buffer, after the report ID.       *)
(***************************************************************************)
\* the input decoder has returned true
Decoded == pc = "returned" /\ call.fn = "input" /\ call.ret = TRUE

\* bit k of buffer byte i
BitAt(i, k) == ((data.v[i] \div (2 ^ k)) % 2) = 1

\* C11: the D-pad of a decoded report is given by the low nibble of buffer
\* byte 5 alone: 0..7 are North, NorthEast, East, SouthEast, South,
\* SouthWest, West, NorthWest, and 8..15 are all Neutral.
C11_DPadFromLowNibble ==
    Decoded =>
        LET nibble == data.v[5] % 16
        IN  outState.v.dpad =
              CASE nibble = 0 -> DS4DPadNorth
                [] nibble = 1 -> DS4DPadNorthEast
                [] nibble = 2 -> DS4DPadEast
                [] nibble = 3 -> DS4DPadSouthEast
                [] nibble = 4 -> DS4DPadSouth
                [] nibble = 5 -> DS4DPadSouthWest
                [] nibble = 6 -> DS4DPadWest
                [] nibble = 7 -> DS4DPadNorthWest
                [] nibble \in 8..15 -> DS4DPadNeutral

\* C11 witness: nibble 15 under a high nibble of 15 decoded as Neutral
\* with all four face buttons pressed
C11_Witness_NibbleFifteenNeutral ==
    /\ Decoded
    /\ data.v[5] = 255
    /\ outState.v.dpad = DS4DPadNeutral
    /\ outState.v.buttons.triangle
    /\ data.v[6] = 0

\* the buffer byte and the bit of each button flag
ButtonBits ==
    [ square |-> <<5, 4>>, cross |-> <<5, 5>>, circle |-> <<5, 6>>,
      triangle |-> <<5, 7>>,
      l1 |-> <<6, 0>>, r1 |-> <<6, 1>>, l2 |-> <<6, 2>>, r2 |-> <<6, 3>>,
      share |-> <<6, 4>>, options |-> <<6, 5>>, l3 |-> <<6, 6>>,
      r3 |-> <<6, 7>>,
      ps |-> <<7, 0>>, touchpadClick |-> <<7, 1>> ]

\* C12: the record has 14 button flags, each equal to its own bit of the
\* report (no bit serves two flags), and the frame counter is buffer byte 7
\* shifted right by two, a value in 0..63.
C12_ButtonsOneBitEach ==
    Decoded =>
        /\ DOMAIN outState.v.buttons = DOMAIN ButtonBits
        /\ Cardinality(DOMAIN ButtonBits) = 14
        /\ \A f, g \in DOMAIN ButtonBits :
              (f # g) => (ButtonBits[f] # ButtonBits[g])
        /\ \A f \in DOMAIN ButtonBits :
              outState.v.buttons[f] = BitAt(ButtonBits[f][1], ButtonBits[f][2])
        /\ outState.v.frameCounter = data.v[7] \div 4
        /\ outState.v.frameCounter \in 0..63

\* C12 witness: byte 6 = 0x02 of an otherwise idle report sets R1 alone
C12_Witness_SingleBitsDecoded ==
    /\ Decoded
    /\ data.v[6] = 2
    /\ data.v[5] = 0
    /\ outState.v.buttons.r1
    /\ ~outState.v.buttons.l1
    /\ ~outState.v.buttons.l2
    /\ outState.v.frameCounter = 0

\* the two bytes at offset o of the buffer as an unsigned 16-bit number
Unsigned16At(o) == data.v[o] + 256 * data.v[o + 1]

\* C13: the six IMU values are the signed 16-bit little-endian numbers at
\* buffer bytes 13..24, in the order gyro pitch, yaw, roll, accel X, Y, Z,
\* and the timestamp is the unsigned 16-bit little-endian number at buffer
\* bytes 10..11.
C13_ImuAndTimestampWords ==
    Decoded =>
        /\ outState.v.imu.gyroPitch = Signed16At(13)
        /\ outState.v.imu.gyroYaw   = Signed16At(15)
        /\ outState.v.imu.gyroRoll  = Signed16At(17)
        /\ outState.v.imu.accelX    = Signed16At(19)
        /\ outState.v.imu.accelY    = Signed16At(21)
        /\ outState.v.imu.accelZ    = Signed16At(23)
        /\ outState.v.imu.gyroPitch \in -32768..32767
        /\ outState.v.timestamp = Unsigned16At(10)
        /\ outState.v.timestamp \in 0..65535

\* C13 witness: bytes 0x00, 0x80 at the accel Z position of an idle report
\* decoded as -32768, the other five values as 0
C13_Witness_MostNegativeWord ==
    /\ Decoded
    /\ data.v[23] = 0 /\ data.v[24] = 128
    /\ outState.v.imu.accelZ = -32768
    /\ outState.v.imu.accelY = 0
    /\ outState.v.imu.gyroPitch = 0
    /\ outState.v.timestamp = 0

\* the finger records of the decoded state and the buffer byte each starts at
Fingers == { <<"touch0", 35>>, <<"touch1", 39>> }

\* C14: in each finger record active is true exactly when bit 7 of its
\* first byte is clear, trackingID is the low seven bits of that byte,
\* X = byte1 + 256 * (byte2 mod 16) and Y = (byte2 div 16) + 16 * byte3;
\* a finger depends on its own four bytes only.
C14_FingerRecordLayout ==
    Decoded =>
        \A f \in Fingers :
            LET t  == outState.v.touchpad[f[1]]
                b0 == data.v[f[2]]
                b1 == data.v[f[2] + 1]
                b2 == data.v[f[2] + 2]
                b3 == data.v[f[2] + 3]
            IN  /\ t.active = (b0 < 128)
                /\ t.trackingID = b0 % 128
                /\ t.x = b1 + 256 * (b2 % 16)
                /\ t.y = (b2 \div 16) + 16 * b3

\* C14 witness: finger 0 bytes 0x80, 0xFF, 0x07, 0x3A decoded as inactive
\* at (2047, 928) next to an active finger 1
C14_Witness_InactiveFingerDecoded ==
    /\ Decoded
    /\ data.v[35] = 128 /\ data.v[36] = 255
    /\ data.v[37] = 7 /\ data.v[38] = 58
    /\ outState.v.touchpad.touch0 =
          [active |-> FALSE, trackingID |-> 0, x |-> 2047, y |-> 928]
    /\ outState.v.touchpad.touch1.active

NoInputReport ==
    [i \in 0..63 |-> IF i = 0 THEN 1 ELSE IF i \in 1..4 THEN 128 ELSE 0]

\* C16 as stated: the report that is zero but for its ID and its four
\* centred stick bytes decodes to the state ds4_input_state_init produces.
C16_Original_NoInputIsDefault ==
    (Decoded /\ data.v = NoInputReport) => outState.v = ds4_input_state_init

\* C16 amended: that report decodes to the default state except in three
\* fields: the D-pad is North, a zero nibble, and both touch-active flags
\* are true, a zero first byte of a finger record having bit 7 clear.
C16_NoInputIsDefaultButDPadAndTouch ==
    (Decoded /\ data.v = NoInputReport) =>
        outState.v = [ ds4_input_state_init EXCEPT
                         !.dpad = DS4DPadNorth,
                         !.touchpad.touch0.active = TRUE,
                         !.touchpad.touch1.active = TRUE ]

\* C16 witness: the report was decoded into a record that held other
\* contents before
C16_Witness_NoInputDecoded ==
    /\ Decoded
    /\ data.v = NoInputReport
    /\ Len(log) = 1
    /\ log[1].before = ScribbledInputState
    /\ outState.v.leftStick = [x |-> 128, y |-> 128]
    /\ outState.v.touchpad.touch0.active
    /\ outState.v.dpad = DS4DPadNorth

\* two logged calls, both successful
BothDecoded(i, j) == log[i].ret /\ log[j].ret

\* C18: two successful decodes of the same report leave identical records,
\* whatever the two records held before: no field keeps its old contents.
C18_SameReportSameState ==
    \A i, j \in DOMAIN log :
        (BothDecoded(i, j) /\ log[i].data = log[j].data)
            => log[i].out = log[j].out

\* C18 witness: the same report was decoded into two records that held
\* different contents, neither of them the decoded state
C18_Witness_DecodedTwice ==
    /\ Decoded
    /\ Len(log) = 2
    /\ log[1].data = log[2].data
    /\ log[1].before = StaleInputState
    /\ log[2].before = ScribbledInputState
    /\ log[1].out = log[2].out
    /\ log[2].out.touchpad.touch1 # ScribbledInputState.touchpad.touch1
    /\ log[2].out.touchpad.packetCount <= 1

\* the positions the claim calls ignored: buffer byte 12, 25..29, 31..32
\* and 43 onwards
IgnoredPositions == {12} \cup (25..29) \cup (31..32)

\* the two reports agree wherever a position is not ignored
AgreeOutsideIgnored(a, b) ==
    \A k \in 0..42 : (k \notin IgnoredPositions) => (a[k] = b[k])

\* C19: two reports that differ only in the ignored positions (including in
\* how many bytes follow byte 42) decode to identical states, and a
\* successful decode reads byte 42 and nothing beyond it.
C19_IgnoredBytesIgnored ==
    /\ \A i, j \in DOMAIN log :
          (BothDecoded(i, j) /\ AgreeOutsideIgnored(log[i].data, log[j].data))
              => log[i].out = log[j].out
    /\ Decoded => (42 \in call.reads /\ call.reads \subseteq 0..42)

\* C19 witness: two reports longer than 64 bytes that differ at every
\* ignored position, byte 64 included, were decoded to the same state
C19_Witness_IgnoredBytesDiffer ==
    /\ Decoded
    /\ Len(log) = 2
    /\ DOMAIN log[1].data = DOMAIN log[2].data
    /\ 64 \in DOMAIN log[1].data
    /\ \A k \in IgnoredPositions \cup (43..64) :
          log[1].data[k] # log[2].data[k]
    /\ log[1].out = log[2].out
    /\ outState.v.battery.level = log[1].data[30] % 16

(***************************************************************************)
(* The driver object (DS4HIDDevice.cpp): init, Start, Stop, the completion *)
(* of an interrupt IN read with processInputReport, copyCalibratedIMU and  *)
(* copyInputState.  Start, Stop and the completions run on the driver's    *)
(* dispatch queue, one after the other; the accessors run on the caller's  *)
(* thread.  No lock orders the accesses of a completion and of             *)
(* copyInputState to ivars->inputState, so the stores of the one and the   *)
(* loads of the other interleave, one member of DS4InputState at a time.   *)
(* The calls the driver makes are logged in the variable framework.        *)
(***************************************************************************)
\* At most MaxReports completions are delivered.
MaxReports == 2

\* copyInputState is called at most MaxCopies times.
MaxCopies == 1

DS4_V1_PRODUCT_ID == 1476
DS4_V2_PRODUCT_ID == 2508

\* a non-null pointer to an object whose contents play no part
Object == Ptr("object")

\* *ivars when init returns true: IONewZero, then the three record
\* initialisers and the battery sentinel
DS4HIDDevice_init ==
    [ interface          |-> NULL,
      inPipe             |-> NULL,
      outPipe            |-> NULL,
      inBuffer           |-> NULL,
      outBuffer          |-> NULL,
      inputAction        |-> NULL,
      inputState         |-> ds4_input_state_init,
      outputState        |-> ds4_output_state_init,
      calibration        |-> ds4_calibration_data_init,
      productID          |-> 0,
      lastBatteryLevel   |-> 255,
      lastCableConnected |-> FALSE ]

\* configureDevice: the return value and *ivars after it.  how names the
\* first step that fails, hasOut whether an interrupt OUT endpoint was found.
configureDevice(iv, how, hasOut) ==
    LET piped    == [iv EXCEPT !.outPipe = IF hasOut THEN Object ELSE NULL]
        withIn   == [piped EXCEPT !.inPipe = Object]
        buffered == [withIn EXCEPT
                       !.inBuffer = Ptr([i \in 0..(DS4_USB_INPUT_REPORT_SIZE - 1)
                                           |-> 0])]
    IN  CASE how = "openFailed"   -> [ret |-> "OpenError", iv |-> iv]
          [] how = "noDescriptor" -> [ret |-> "kIOReturnNotFound", iv |-> iv]
          [] how = "noInPipe"     -> [ret |-> "kIOReturnNotFound", iv |-> piped]
          [] how = "noInBuffer"   -> [ret |-> "InBufferError", iv |-> withIn]
          [] how = "noOutBuffer"  -> [ret |-> "OutBufferError", iv |-> buffered]
          [] how = "ok"           ->
                [ret |-> "success", iv |-> [buffered EXCEPT !.outBuffer = Object]]

ConfigureOutcomes ==
    {"openFailed", "noDescriptor", "noInPipe", "noInBuffer", "noOutBuffer", "ok"}

\* the calibration feature report of a controller, one with a wrong ID,
\* and one whose gyro pitch references are equal
CalibrationReports ==
    { [i \in 0..(DS4_CALIBRATION_REPORT_SIZE - 1) |->
          IF i = 0 THEN c.tag ELSE CalPattern(c.vals, 0)[i]] :
        c \in { [tag |-> DS4_REPORT_ID_CALIBRATION, vals |-> BaseCal],
                [tag |-> 0, vals |-> BaseCal],
                [tag |-> DS4_REPORT_ID_CALIBRATION,
                 vals |-> WithEqualPairs(BaseCal, {1})] } }

\* a call the driver made, or an entry point that returned, with its result
Called(fn, ret) == [fn |-> fn, ret |-> ret]

\* readCalibrationData: the return value, *ivars after it and the calls it
\* made.  how.step is the step that fails, or "transferred" with the bytes
\* the device request left in the buffer in how.bytes.
readCalibrationData(iv, how) ==
    LET create  == Called("IOBufferMemoryDescriptor::Create",
                          IF how.step = "createFailed" THEN "CalBufferError"
                          ELSE "success")
        request == Called("DeviceRequest",
                          IF how.step = "requestFailed"
                          THEN "DeviceRequestError" ELSE "success")
        range   == Called("GetAddressRange",
                          IF how.step = "noRange" THEN "RangeError"
                          ELSE "success")
        parsed  == ds4_parse_usb_calibration(Ptr(how.bytes),
                       DS4_CALIBRATION_REPORT_SIZE, Ptr(iv.calibration))
    IN  IF iv.interface.null
        THEN [ret |-> "kIOReturnNotReady", iv |-> iv, calls |-> <<>>]
        ELSE IF how.step = "createFailed"
        THEN [ret |-> create.ret, iv |-> iv, calls |-> <<create>>]
        ELSE IF how.step = "requestFailed"
        THEN [ret |-> request.ret, iv |-> iv, calls |-> <<create, request>>]
        ELSE IF how.step = "underrun"
        THEN [ret |-> "kIOReturnUnderrun", iv |-> iv,
              calls |-> <<create, request>>]
        ELSE IF how.step = "noRange"
        THEN [ret |-> "success", iv |-> iv,
              calls |-> <<create, request, range>>]
        ELSE [ret   |-> "success",
              iv    |-> [iv EXCEPT !.calibration = parsed.out.v],
              calls |-> <<create, request, range,
                          Called("ds4_parse_usb_calibration",
                                 IF parsed.ret THEN "true" ELSE "false")>>]

CalibrationOutcomes ==
    { [step |-> f, bytes |-> <<>>] :
        f \in {"createFailed", "requestFailed", "underrun", "noRange"} }
    \cup { [step |-> "transferred", bytes |-> b] : b \in CalibrationReports }

\* startInputPolling: the return value, *ivars, the reads outstanding and
\* the calls it made
startInputPolling(iv, how) ==
    CASE how = "actionFailed" ->
            [ret |-> "CreateActionError", iv |-> iv, reads |-> 0,
             calls |-> <<Called("CreateActioninputReportComplete",
                                "CreateActionError")>>]
      [] how = "ioFailed"     ->
            [ret |-> "AsyncIOError", iv |-> [iv EXCEPT !.inputAction = Object],
             reads |-> 0,
             calls |-> <<Called("CreateActioninputReportComplete", "success"),
                         Called("AsyncIO", "AsyncIOError")>>]
      [] how = "ok"           ->
            [ret |-> "success", iv |-> [iv EXCEPT !.inputAction = Object],
             reads |-> 1,
             calls |-> <<Called("CreateActioninputReportComplete", "success"),
                         Called("AsyncIO", "success")>>]

PollingOutcomes == {"actionFailed", "ioFailed", "ok"}

\* no driver object is in use
InitDevice ==
    /\ pc = "allocated"
    /\ DecoderIdle
    /\ EncoderIdle
    /\ EngineIdle
    /\ DeviceIdle

\* DS4HIDDevice::init
init ==
    /\ pc = "allocated"
    /\ \E how \in {"superFailed", "noMemory", "ok"} :
          IF how = "ok"
          THEN ivars' = Ptr(DS4HIDDevice_init) /\ pc' = "constructed"
          ELSE ivars' = NULL /\ pc' = "initFailed"
    /\ UNCHANGED <<completion, copier, snapshot, properties, delivered,
                   forwarded, pendingReads, framework>>
    /\ UNCHANGED <<decoderVars, encoderVars, engineVars>>

\* Start_Impl returning the error of a failed calibration read
Start_Impl_CalibrationFatal ==
    /\ pc = "constructed"
    /\ \E superOk \in BOOLEAN, isInterface \in BOOLEAN,
          pid \in {0, DS4_V2_PRODUCT_ID},
          cfg \in ConfigureOutcomes, hasOut \in BOOLEAN,
          calHow \in CalibrationOutcomes, poll \in PollingOutcomes :
          LET iv0   == [ivars.v EXCEPT
                          !.interface = Object,
                          !.productID = IF pid = 0 THEN DS4_V1_PRODUCT_ID
                                        ELSE pid]
              conf  == configureDevice(iv0, cfg, hasOut)
              calib == readCalibrationData(conf.iv, calHow)
              polls == startInputPolling(calib.iv, poll)
              super == <<Called("Start(SUPERDISPATCH)",
                                IF superOk THEN "success"
                                ELSE "SuperStartError")>>
              cast  == super \o
                       <<Called("OSDynamicCast",
                                IF isInterface THEN "success" ELSE "nullptr")>>
              confd == cast \o <<Called("configureDevice", conf.ret)>>
              polld == confd \o calib.calls
                       \o <<Called("readCalibrationData", calib.ret)>>
                       \o polls.calls
                       \o <<Called("startInputPolling", polls.ret)>>
          IN  IF ~superOk
              THEN /\ pc' = "startFailed"
                   /\ framework' = framework \o super
                         \o <<Called("Start_Impl", "SuperStartError")>>
                   /\ UNCHANGED <<ivars, pendingReads>>
              ELSE IF ~isInterface
              THEN /\ pc' = "startFailed"
                   /\ framework' = framework \o cast
                         \o <<Called("Start_Impl", "kIOReturnNoDevice")>>
                   /\ UNCHANGED <<ivars, pendingReads>>
              ELSE IF conf.ret # "success"
              THEN /\ pc' = "startFailed"
                   /\ ivars' = Ptr(conf.iv)
                   /\ framework' = framework \o confd
                         \o <<Called("Start_Impl", conf.ret)>>
                   /\ UNCHANGED pendingReads
              ELSE IF calib.ret # "success"
              THEN /\ pc' = "startFailed"
                   /\ ivars' = Ptr(calib.iv)
                   /\ framework' = framework \o confd \o calib.calls
                         \o <<Called("readCalibrationData", calib.ret),
                              Called("Start_Impl", calib.ret)>>
                   /\ UNCHANGED pendingReads
              ELSE IF polls.ret # "success"
              THEN /\ pc' = "startFailed"
                   /\ ivars' = Ptr(polls.iv)
                   /\ framework' = framework \o polld
                         \o <<Called("Start_Impl", polls.ret)>>
                   /\ UNCHANGED pendingReads
              ELSE /\ pc' = "started"
                   /\ ivars' = Ptr(polls.iv)
                   /\ pendingReads' = polls.reads
                   /\ framework' = framework \o polld
                         \o <<Called("RegisterService", "success"),
                              Called("Start_Impl", "success")>>
    /\ UNCHANGED <<completion, copier, snapshot, properties, delivered,
                   forwarded>>
    /\ UNCHANGED <<decoderVars, encoderVars, engineVars>>

\* DS4HIDDevice::Start_Impl, run to its return: the calls it makes are
\* logged in order, its return value last
Start_Impl ==
    /\ pc = "constructed"
    /\ \E superOk \in BOOLEAN, isInterface \in BOOLEAN,
          pid \in {0, DS4_V2_PRODUCT_ID},
          cfg \in ConfigureOutcomes, hasOut \in BOOLEAN,
          calHow \in CalibrationOutcomes, poll \in PollingOutcomes :
          LET iv0   == [ivars.v EXCEPT
                          !.interface = Object,
                          !.productID = IF pid = 0 THEN DS4_V1_PRODUCT_ID
                                        ELSE pid]
              conf  == configureDevice(iv0, cfg, hasOut)
              calib == readCalibrationData(conf.iv, calHow)
              polls == startInputPolling(calib.iv, poll)
              super == <<Called("Start(SUPERDISPATCH)",
                                IF superOk THEN "success"
                                ELSE "SuperStartError")>>
              cast  == super \o
                       <<Called("OSDynamicCast",
                                IF isInterface THEN "success" ELSE "nullptr")>>
              confd == cast \o <<Called("configureDevice", conf.ret)>>
              polld == confd \o calib.calls
                       \o <<Called("readCalibrationData", calib.ret)>>
                       \o polls.calls
                       \o <<Called("startInputPolling", polls.ret)>>
          IN  IF ~superOk
              THEN /\ pc' = "startFailed"
                   /\ framework' = framework \o super
                         \o <<Called("Start_Impl", "SuperStartError")>>
                   /\ UNCHANGED <<ivars, pendingReads>>
              ELSE IF ~isInterface
              THEN /\ pc' = "startFailed"
                   /\ framework' = framework \o cast
                         \o <<Called("Start_Impl", "kIOReturnNoDevice")>>
                   /\ UNCHANGED <<ivars, pendingReads>>
              ELSE IF conf.ret # "success"
              THEN /\ pc' = "startFailed"
                   /\ ivars' = Ptr(conf.iv)
                   /\ framework' = framework \o confd
                         \o <<Called("Start_Impl", conf.ret)>>
                   /\ UNCHANGED pendingReads
              ELSE IF polls.ret # "success"
              THEN /\ pc' = "startFailed"
                   /\ ivars' = Ptr(polls.iv)
                   /\ framework' = framework \o polld
                         \o <<Called("Start_Impl", polls.ret)>>
                   /\ UNCHANGED pendingReads
              ELSE /\ pc' = "started"
                   /\ ivars' = Ptr(polls.iv)
                   /\ pendingReads' = polls.reads
                   /\ framework' = framework \o polld
                         \o <<Called("RegisterService", "success"),
                              Called("Start_Impl", "success")>>
    /\ UNCHANGED <<completion, copier, snapshot, properties, delivered,
                   forwarded>>
    /\ UNCHANGED <<decoderVars, encoderVars, engineVars>>

\* a report with cross pressed, the cable connected at battery level 5
\* and no finger on the touchpad
PressReport ==
    [ IdleReport EXCEPT ![5] = 40, ![30] = 21, ![35] = 128, ![39] = 128 ]

\* an idle report without cable at battery level 7
WirelessReport == [ IdleReport EXCEPT ![30] = 7 ]

\* a report with every payload bit set
OnesReport ==
    TaggedBuffer(DS4_USB_INPUT_REPORT_SIZE, DS4_REPORT_ID_USB_INPUT, "ones")

\* a transfer of 64 bytes that is no input report
ForeignReport == TaggedBuffer(DS4_USB_INPUT_REPORT_SIZE, 0, "ramp")

\* What a completion is called with: the status, actualByteCount, the
\* bytes the transfer left in the IN buffer (NULL: none) and whether
\* GetAddressRange succeeds.
Completions ==
    { [status |-> "success", count |-> DS4_USB_INPUT_REPORT_SIZE,
       bytes |-> Ptr(b), range |-> TRUE] :
        b \in {PressReport, WirelessReport, OnesReport, ForeignReport} }
    \cup
    { [status |-> "success", count |-> DS4_USB_INPUT_REPORT_SIZE - 1,
       bytes |-> Ptr(OnesReport), range |-> TRUE],
      [status |-> "success", count |-> DS4_USB_INPUT_REPORT_SIZE,
       bytes |-> Ptr(OnesReport), range |-> FALSE],
      [status |-> "error", count |-> 0, bytes |-> NULL, range |-> TRUE],
      [status |-> "aborted", count |-> 0, bytes |-> NULL, range |-> TRUE] }

\* the members of DS4InputState in the order parseControllerState stores them
WriteOrder ==
    << "leftStick", "rightStick", "dpad", "buttons", "frameCounter",
       "l2Trigger", "r2Trigger", "timestamp", "imu", "battery", "touchpad" >>

\* the members of DS4InputState in the order of the struct, which is the
\* order memcpy loads them in
CopyOrder ==
    << "leftStick", "rightStick", "dpad", "buttons", "l2Trigger",
       "r2Trigger", "touchpad", "imu", "battery", "timestamp",
       "frameCounter" >>

\* the percentage on the scale of 8 whether or not the cable is connected
BatteryPercent_WirelessScale(level, charging) ==
    LET maxVal  == 8
        percent == (level * 100) \div (IF maxVal > 0 THEN maxVal ELSE 1)
    IN  IF percent > 100 THEN 100 ELSE percent

\* the percentage updateBatteryProperties publishes
BatteryPercent(level, charging) ==
    LET maxVal  == IF charging THEN 11 ELSE 8
        percent == (level * 100) \div (IF maxVal > 0 THEN maxVal ELSE 1)
    IN  IF percent > 100 THEN 100 ELSE percent

\* the properties updateBatteryProperties sets
updateBatteryProperties(iv) ==
    [ BatteryPercent  |-> BatteryPercent(iv.inputState.battery.level,
                                         iv.inputState.battery.cableConnected),
      BatteryCharging |-> IF iv.inputState.battery.cableConnected
                          THEN 1 ELSE 0 ]

\* inputReportComplete_Impl up to the call of processInputReport: the
\* transfer has filled the IN buffer, the status and the byte count decide
\* whether the report is processed, skipped, or polling ends
inputReportComplete_Impl ==
    /\ pc \in {"started", "stopped"}
    /\ completion.at = "idle"
    /\ pendingReads > 0
    /\ Len(delivered) < MaxReports
    /\ \E c \in Completions :
          LET filled == IF c.bytes.null \/ ivars.v.inBuffer.null
                        THEN ivars.v.inBuffer ELSE c.bytes
          IN  /\ ivars' = [ivars EXCEPT !.v.inBuffer = filled]
              /\ delivered' = Append(delivered,
                                     [status |-> c.status, count |-> c.count,
                                      bytes |-> filled, range |-> c.range])
              /\ completion' =
                    IF c.status = "aborted"
                    THEN [at |-> "idle", k |-> 0]
                    ELSE IF c.count >= DS4_USB_INPUT_REPORT_SIZE
                            /\ ~filled.null /\ c.range
                    THEN [at |-> "parse", k |-> 0]
                    ELSE [at |-> "reschedule", k |-> 0]
    /\ pendingReads' = pendingReads - 1
    /\ UNCHANGED <<pc, copier, snapshot, properties, forwarded, framework>>
    /\ UNCHANGED <<decoderVars, encoderVars, engineVars>>

\* processInputReport -> ds4_parse_usb_input_report: the three checks and,
\* when they pass, ds4_input_state_init on the cached state
processInputReport_Reset ==
    /\ completion.at = "parse"
    /\ \E r \in { ds4_parse_usb_input_report(ivars.v.inBuffer,
                      DS4_USB_INPUT_REPORT_SIZE, Ptr(ivars.v.inputState)) } :
          IF r.ret
          THEN /\ ivars' = [ivars EXCEPT !.v.inputState = ds4_input_state_init]
               /\ completion' = [at |-> "write", k |-> 1]
          ELSE /\ completion' = [at |-> "battery", k |-> 0]
               /\ UNCHANGED ivars
    /\ UNCHANGED <<pc, copier, snapshot, properties, delivered, forwarded,
                   pendingReads, framework>>
    /\ UNCHANGED <<decoderVars, encoderVars, engineVars>>

\* parseControllerState: the stores to the next member of the cached state
processInputReport_Store ==
    /\ completion.at = "write"
    /\ LET member == WriteOrder[completion.k]
           parsed == parseControllerState(ivars.v.inBuffer.v, 1,
                                          ivars.v.inputState)
       IN  ivars' = [ivars EXCEPT !.v.inputState[member] = parsed[member]]
    /\ completion' = IF completion.k < Len(WriteOrder)
                     THEN [at |-> "write", k |-> completion.k + 1]
                     ELSE [at |-> "battery", k |-> 0]
    /\ UNCHANGED <<pc, copier, snapshot, properties, delivered, forwarded,
                   pendingReads, framework>>
    /\ UNCHANGED <<decoderVars, encoderVars, engineVars>>

\* the rest of processInputReport: the battery properties are published
\* when the level or the cable flag differs from the last published pair
processInputReport_Battery ==
    /\ completion.at = "battery"
    /\ LET battery == ivars.v.inputState.battery
       IN  IF battery.level # ivars.v.lastBatteryLevel
              \/ battery.cableConnected # ivars.v.lastCableConnected
           THEN /\ properties' = Ptr(updateBatteryProperties(ivars.v))
                /\ framework' = Append(framework,
                                       Called("updateBatteryProperties",
                                              "void"))
                /\ ivars' = [ivars EXCEPT
                               !.v.lastBatteryLevel = battery.level,
                               !.v.lastCableConnected = battery.cableConnected]
           ELSE UNCHANGED <<properties, ivars, framework>>
    /\ completion' = [at |-> "forward", k |-> 0]
    /\ UNCHANGED <<pc, copier, snapshot, delivered, forwarded, pendingReads>>
    /\ UNCHANGED <<decoderVars, encoderVars, engineVars>>

\* the end of inputReportComplete_Impl with the next read requested only
\* after a processed report
inputReportComplete_Reschedule_OnlyAfterReport ==
    /\ completion.at \in {"forward", "reschedule"}
    /\ forwarded' = IF completion.at = "forward"
                    THEN Append(forwarded, ivars.v.inBuffer.v)
                    ELSE forwarded
    /\ IF completion.at = "forward"
          /\ ~ivars.v.inPipe.null /\ ~ivars.v.inBuffer.null
          /\ ~ivars.v.inputAction.null
       THEN \E scheduled \in BOOLEAN :
               /\ pendingReads' = IF scheduled THEN pendingReads + 1
                                  ELSE pendingReads
               /\ framework' = Append(framework,
                                      Called("AsyncIO",
                                             IF scheduled THEN "success"
                                             ELSE "AsyncIOError"))
       ELSE UNCHANGED <<pendingReads, framework>>
    /\ completion' = [at |-> "idle", k |-> 0]
    /\ UNCHANGED <<pc, ivars, copier, snapshot, properties, delivered>>
    /\ UNCHANGED <<decoderVars, encoderVars, engineVars>>

\* the end of inputReportComplete_Impl: handleReport on the buffer when it
\* was processed, then the next asynchronous read, which may fail
inputReportComplete_Reschedule ==
    /\ completion.at \in {"forward", "reschedule"}
    /\ forwarded' = IF completion.at = "forward"
                    THEN Append(forwarded, ivars.v.inBuffer.v)
                    ELSE forwarded
    /\ IF ~ivars.v.inPipe.null /\ ~ivars.v.inBuffer.null
          /\ ~ivars.v.inputAction.null
       THEN \E scheduled \in BOOLEAN :
               /\ pendingReads' = IF scheduled THEN pendingReads + 1
                                  ELSE pendingReads
               /\ framework' = Append(framework,
                                      Called("AsyncIO",
                                             IF scheduled THEN "success"
                                             ELSE "AsyncIOError"))
       ELSE UNCHANGED <<pendingReads, framework>>
    /\ completion' = [at |-> "idle", k |-> 0]
    /\ UNCHANGED <<pc, ivars, copier, snapshot, properties, delivered>>
    /\ UNCHANGED <<decoderVars, encoderVars, engineVars>>

\* copyInputState up to memcpy: the argument check, on a caller's buffer
\* that holds left-over contents
copyInputState ==
    /\ pc = "started"
    /\ copier.at = "idle"
    /\ copier.calls < MaxCopies
    /\ \E args \in {"ok", "nullBuffer", "tooSmall"} :
          IF args = "ok"
          THEN /\ snapshot' = Ptr(StaleInputState)
               /\ copier' = [at |-> "copy", k |-> 1,
                             calls |-> copier.calls + 1, ret |-> FALSE]
          ELSE /\ snapshot' = IF args = "nullBuffer" THEN NULL
                              ELSE Ptr(StaleInputState)
               /\ copier' = [at |-> "idle", k |-> 0,
                             calls |-> copier.calls + 1, ret |-> FALSE]
    /\ UNCHANGED <<pc, ivars, completion, properties, delivered, forwarded,
                   pendingReads, framework>>
    /\ UNCHANGED <<decoderVars, encoderVars, engineVars>>

\* memcpy(outBuffer, &ivars->inputState, sizeof): the next member, and the
\* return of true after the last
copyInputState_Load ==
    /\ copier.at = "copy"
    /\ LET member == CopyOrder[copier.k]
       IN  snapshot' = [snapshot EXCEPT
                          !.v[member] = ivars.v.inputState[member]]
    /\ copier' = IF copier.k < Len(CopyOrder)
                 THEN [copier EXCEPT !.k = copier.k + 1]
                 ELSE [copier EXCEPT !.at = "idle", !.k = 0, !.ret = TRUE]
    /\ UNCHANGED <<pc, ivars, completion, properties, delivered, forwarded,
                   pendingReads, framework>>
    /\ UNCHANGED <<decoderVars, encoderVars, engineVars>>

\* DS4HIDDevice::copyCalibratedIMU, called by a client of the started
\* driver: ds4_calibrate_imu on the cached sample and the cached
\* calibration, the result copied into the caller's buffer
copyCalibratedIMU ==
    /\ pc \in {"started", "stopped"}
    /\ \E args \in {"ok", "nullBuffer", "tooSmall"} :
          IF args = "ok"
          THEN /\ raw' = Ptr(ivars.v.inputState.imu)
               /\ cal' = Ptr(ivars.v.calibration)
               /\ \E r \in { ds4_calibrate_imu(Ptr(ivars.v.inputState.imu),
                                                Ptr(ivars.v.calibration),
                                                Ptr(StaleCalibratedIMU)) } :
                     calibrated' = r
          ELSE /\ raw' = NULL
               /\ cal' = NULL
               /\ calibrated' = IF args = "nullBuffer" THEN NULL
                                ELSE Ptr(StaleCalibratedIMU)
    /\ UNCHANGED <<pc, deviceVars, decoderVars, encoderVars>>

\* DS4HIDDevice::Stop_Impl, which runs on the queue of the completions and
\* so between two of them: the pending read is aborted and the six
\* objects are released
Stop_Impl ==
    /\ pc = "started"
    /\ completion.at = "idle"
    /\ ivars' = [ivars EXCEPT
                   !.v.inputAction = NULL, !.v.inBuffer = NULL,
                   !.v.outBuffer = NULL, !.v.inPipe = NULL,
                   !.v.outPipe = NULL, !.v.interface = NULL]
    /\ \E superRet \in {"success", "SuperStopError"} :
          framework' = framework
              \o (IF ivars.v.inPipe.null THEN <<>>
                  ELSE <<Called("Abort", "success")>>)
              \o <<Called("Stop(SUPERDISPATCH)", superRet),
                   Called("Stop_Impl", superRet)>>
    /\ pc' = "stopped"
    /\ UNCHANGED <<completion, copier, snapshot, properties, delivered,
                   forwarded, pendingReads>>
    /\ UNCHANGED <<decoderVars, encoderVars, engineVars>>

NextDevice ==
    \/ init
    \/ Start_Impl
    \/ inputReportComplete_Impl
    \/ processInputReport_Reset
    \/ processInputReport_Store
    \/ processInputReport_Battery
    \/ inputReportComplete_Reschedule
    \/ copyCalibratedIMU
    \/ Stop_Impl

SpecDevice == InitDevice /\ [][NextDevice]_vars

\* init and a Start_Impl in which every step succeeded: *ivars, the reads
\* outstanding and the calls made
StartedDevice ==
    LET iv0   == [DS4HIDDevice_init EXCEPT
                    !.interface = Object, !.productID = DS4_V2_PRODUCT_ID]
        conf  == configureDevice(iv0, "ok", TRUE)
        calib == readCalibrationData(conf.iv,
                     [step |-> "transferred",
                      bytes |-> CHOOSE b \in CalibrationReports :
                                   b[0] = DS4_REPORT_ID_CALIBRATION])
        polls == startInputPolling(calib.iv, "ok")
    IN  [ iv    |-> polls.iv,
          reads |-> polls.reads,
          calls |-> <<Called("Start(SUPERDISPATCH)", "success"),
                      Called("OSDynamicCast", "success"),
                      Called("configureDevice", conf.ret)>>
                    \o calib.calls
                    \o <<Called("readCalibrationData", calib.ret)>>
                    \o polls.calls
                    \o <<Called("startInputPolling", polls.ret),
                         Called("RegisterService", "success"),
                         Called("Start_Impl", "success")>> ]

\* The driver has started and polls; a client may call copyInputState
\* while completions arrive.
InitSnapshot ==
    /\ pc = "started"
    /\ DecoderIdle
    /\ EncoderIdle
    /\ EngineIdle
    /\ ivars = Ptr(StartedDevice.iv)
    /\ pendingReads = StartedDevice.reads
    /\ completion = [at |-> "idle", k |-> 0]
    /\ copier = [at |-> "idle", k |-> 0, calls |-> 0, ret |-> FALSE]
    /\ snapshot = NULL
    /\ properties = NULL
    /\ delivered = <<>>
    /\ forwarded = <<>>
    /\ framework = StartedDevice.calls

NextSnapshot ==
    \/ inputReportComplete_Impl
    \/ processInputReport_Reset
    \/ processInputReport_Store
    \/ processInputReport_Battery
    \/ inputReportComplete_Reschedule
    \/ copyInputState
    \/ copyInputState_Load

SpecSnapshot == InitSnapshot /\ [][NextSnapshot]_vars

(***************************************************************************)
(* Claims about the driver object                                          *)
(***************************************************************************)
\* an InputState with centred sticks, a neutral D-pad and nothing else set
IsDefaultInputState(s) ==
    /\ s.leftStick = [x |-> 128, y |-> 128]
    /\ s.rightStick = [x |-> 128, y |-> 128]
    /\ s.dpad = 8
    /\ \A b \in DOMAIN s.buttons : s.buttons[b] = FALSE
    /\ s.l2Trigger = 0 /\ s.r2Trigger = 0
    /\ s.touchpad.packetCount = 0 /\ s.touchpad.packetCounter = 0
    /\ \A t \in {s.touchpad.touch0, s.touchpad.touch1} :
          ~t.active /\ t.trackingID = 0 /\ t.x = 0 /\ t.y = 0
    /\ \A f \in DOMAIN s.imu : s.imu[f] = 0
    /\ s.battery.level = 0
    /\ ~s.battery.cableConnected
    /\ ~s.battery.headphones
    /\ ~s.battery.microphone
    /\ s.timestamp = 0
    /\ s.frameCounter = 0

\* an OutputState with its seven bytes zero
IsDefaultOutputState(s) ==
    /\ Cardinality(DOMAIN s) = 7
    /\ \A f \in DOMAIN s : s[f] = 0

\* C17: after DS4HIDDevice::init and before any report has been
\* delivered, the cached inputState has both sticks at (128,128), the
\* D-pad Neutral, every boolean false and every other number zero, and
\* the cached outputState has all seven bytes zero; the two initialisers
\* produce exactly these records.
C17_DefaultStatesAfterInit ==
    /\ IsDefaultInputState(ds4_input_state_init)
    /\ IsDefaultOutputState(ds4_output_state_init)
    /\ (~ivars.null /\ delivered = <<>>) =>
          /\ IsDefaultInputState(ivars.v.inputState)
          /\ IsDefaultOutputState(ivars.v.outputState)
          /\ ivars.v.inputState = ds4_input_state_init
          /\ ivars.v.outputState = ds4_output_state_init

\* init has returned true and Start has not run yet
C17_Witness_Constructed ==
    /\ pc = "constructed"
    /\ ~ivars.null
    /\ delivered = <<>>
    /\ ivars.v.inputState.leftStick.x = 128
    /\ ivars.v.inputState.dpad = 8
    /\ ivars.v.outputState.ledBlue = 0

\* the complete decodings of the reports received so far
ReceivedStates ==
    { parseControllerState(delivered[i].bytes.v, 1, ds4_input_state_init) :
        i \in { j \in DOMAIN delivered :
                  /\ ~delivered[j].bytes.null
                  /\ delivered[j].count >= DS4_USB_INPUT_REPORT_SIZE
                  /\ delivered[j].bytes.v[0] = DS4_REPORT_ID_USB_INPUT } }

\* C20: under every interleaving of an input-report completion with a
\* concurrent copyInputState, the state copyInputState has copied out when
\* it returns true is the initial default state or the complete decoding
\* of one received report, never a mixture.
C20_ConsistentSnapshot ==
    (copier.calls > 0 /\ copier.at = "idle" /\ copier.ret) =>
        snapshot.v \in {ds4_input_state_init} \cup ReceivedStates

\* a copy that ran by itself returned the decoding of a received report
C20_Witness_CopyOfReceivedReport ==
    /\ copier.calls > 0 /\ copier.at = "idle" /\ copier.ret
    /\ snapshot.v \in ReceivedStates

\* the completion was called for a buffer the claims call malformed: none,
\* fewer than 64 bytes, or a first byte other than 0x01
Malformed(d) ==
    \/ d.bytes.null
    \/ d.count < DS4_USB_INPUT_REPORT_SIZE
    \/ d.bytes.v[0] # DS4_REPORT_ID_USB_INPUT

\* the completions so far whose buffer was well formed and could be mapped
WellFormedDeliveries ==
    { i \in DOMAIN delivered :
        /\ delivered[i].status # "aborted"
        /\ ~Malformed(delivered[i])
        /\ delivered[i].range }

\* the decoding of the most recent well-formed buffer, or the default state
LastKnownGood ==
    IF WellFormedDeliveries = {}
    THEN ds4_input_state_init
    ELSE LET last == CHOOSE i \in WellFormedDeliveries :
                        \A j \in WellFormedDeliveries : j <= i
         IN  parseControllerState(delivered[last].bytes.v, 1,
                                  ds4_input_state_init)

\* the completion handler is running, or has just run, on a malformed buffer
HandlingMalformed ==
    /\ delivered # <<>>
    /\ completion.at # "idle"
    /\ Malformed(delivered[Len(delivered)])

\* between completions the cached state is the last known good one
CachedStateIsLastKnownGood ==
    (~ivars.null /\ completion.at = "idle") =>
        ivars.v.inputState = LastKnownGood

\* C21: after any sequence of completions the cached inputState is the
\* decoding of the most recent delivered buffer of at least 64 bytes that
\* began with 0x01, or the default state if there was none; while a short
\* or wrongly tagged buffer is handled, the cached state, the last
\* published battery level and the last published cable flag do not change.
C21_MalformedBufferChangesNothing ==
    /\ []CachedStateIsLastKnownGood
    /\ [][ HandlingMalformed =>
             /\ ivars'.v.inputState = ivars.v.inputState
             /\ ivars'.v.lastBatteryLevel = ivars.v.lastBatteryLevel
             /\ ivars'.v.lastCableConnected = ivars.v.lastCableConnected ]_vars

\* a wrongly tagged buffer has been handled after a well-formed one and the
\* cached state is still the decoding of the well-formed one
C21_Witness_MalformedAfterWellFormed ==
    /\ Len(delivered) = 2
    /\ completion.at = "idle"
    /\ ~Malformed(delivered[1]) /\ delivered[1].range
    /\ delivered[2].count = DS4_USB_INPUT_REPORT_SIZE
    /\ ~delivered[2].bytes.null
    /\ delivered[2].bytes.v[0] # DS4_REPORT_ID_USB_INPUT
    /\ Len(forwarded) = 2
    /\ ivars.v.inputState = LastKnownGood
    /\ ivars.v.inputState # ds4_input_state_init

\* C22: a received buffer that ds4_parse_usb_input_report rejects is not
\* handed to handleReport: every buffer forwarded to the HID family is one
\* the decoder accepted.
C22_OnlyDecodedBuffersForwarded ==
    \A i \in DOMAIN forwarded :
        ds4_parse_usb_input_report(Ptr(forwarded[i]),
            DS4_USB_INPUT_REPORT_SIZE, Ptr(ds4_input_state_init)).ret

\* a decoded buffer has been forwarded
C22_Witness_DecodedBufferForwarded ==
    /\ Len(forwarded) = 1
    /\ forwarded[1][0] = DS4_REPORT_ID_USB_INPUT
    /\ completion.at = "idle"
    /\ ivars.v.inputState =
          parseControllerState(forwarded[1], 1, ds4_input_state_init)

\* the calls logged so far under the name fn
CallsOf(fn) == SelectSeq(framework, LAMBDA c : c.fn = fn)

\* readCalibrationData reached ds4_parse_usb_calibration and it returned true
CalibrationParsed ==
    \E i \in DOMAIN framework :
        framework[i] = Called("ds4_parse_usb_calibration", "true")

\* C23: unless the start-up read reached a successful parse (buffer
\* allocation, the device request, the byte count and the report ID all
\* passed), the cached calibration keeps isValid = false from init, and
\* every copyCalibratedIMU hands ds4_calibrate_imu the cached IMU sample
\* and returns its nominal conversion, gyro raw/16.4 and accel raw/8192.
C23_NominalWithoutCalibration ==
    /\ [](~ivars.null /\ ~CalibrationParsed => ~ivars.v.calibration.isValid)
    /\ [](~raw.null /\ ~cal.null /\ ~calibrated.null /\ ~CalibrationParsed =>
            /\ ~cal.v.isValid
            /\ \A a \in GyroAxes :
                  ScaledEquals(calibrated.v[a.out], 164, 10, raw.v[a.raw])
            /\ \A a \in AccelAxes :
                  ScaledEquals(calibrated.v[a.out], 8192, 1, raw.v[a.raw]))
    /\ [][ (raw' # raw \/ cal' # cal \/ calibrated' # calibrated)
              /\ ~raw'.null =>
                 /\ raw'.v = ivars.v.inputState.imu
                 /\ cal'.v = ivars.v.calibration
                 /\ ~calibrated'.null ]_vars

\* the calibration transfer was short, a report with every IMU word -1 was
\* decoded, and copyCalibratedIMU returned -1/16.4 deg/s and -1/8192 g
C23_Witness_NominalAfterUnderrun ==
    /\ Len(CallsOf("readCalibrationData")) = 1
    /\ CallsOf("readCalibrationData")[1].ret = "kIOReturnUnderrun"
    /\ ~raw.null /\ ~calibrated.null
    /\ raw.v.gyroYaw = -1 /\ raw.v.accelZ = -1
    /\ raw.v = ivars.v.inputState.imu
    /\ ScaledEquals(calibrated.v.gyroYawDPS, 164, 10, -1)
    /\ ScaledEquals(calibrated.v.accelZG, 8192, 1, -1)

\* the number of AsyncIO requests made so far
AsyncRequests == Len(CallsOf("AsyncIO"))

\* the pipe, the buffer and the action of the polling loop all exist
PollingObjectsExist ==
    /\ ~ivars.null
    /\ ~ivars.v.inPipe.null
    /\ ~ivars.v.inBuffer.null
    /\ ~ivars.v.inputAction.null

\* this step is the return of a completion that was not aborted
CompletionReturns ==
    /\ completion.at \in {"forward", "reschedule"}
    /\ completion'.at = "idle"

\* this step is a completion called with status Aborted
CompletionAborted ==
    /\ Len(delivered') = Len(delivered) + 1
    /\ delivered'[Len(delivered')].status = "aborted"

\* this step is a completion called with another status
CompletionNotAborted ==
    /\ Len(delivered') = Len(delivered) + 1
    /\ delivered'[Len(delivered')].status # "aborted"

\* C24 as stated: at most one read is outstanding; every completion that
\* is not aborted leaves exactly one new read scheduled when the pipe, the
\* buffer and the action exist; an aborted one schedules none; after Stop
\* no read is scheduled.
C24_Original_OneNewReadPerCompletion ==
    /\ [](pendingReads \in {0, 1})
    /\ [][ CompletionNotAborted => completion'.at # "idle" ]_vars
    /\ [][ CompletionReturns /\ PollingObjectsExist =>
             /\ AsyncRequests' = AsyncRequests + 1
             /\ pendingReads' = pendingReads + 1 ]_vars
    /\ [][ CompletionAborted =>
             /\ AsyncRequests' = AsyncRequests
             /\ completion'.at = "idle" ]_vars
    /\ [][ pc = "stopped" =>
             /\ AsyncRequests' = AsyncRequests
             /\ pendingReads' <= pendingReads ]_vars

\* C24, amended: at most one read is outstanding; every completion that is
\* not aborted runs to the reschedule step and there makes exactly one
\* AsyncIO request when the pipe, the buffer and the action exist, none
\* otherwise; the request leaves a read outstanding only if AsyncIO
\* returns success; an aborted completion makes no request; requests are
\* made nowhere else but in Start; after Stop none is made.
C24_OneRequestPerCompletion ==
    /\ [](pendingReads \in {0, 1})
    /\ [][ CompletionNotAborted => completion'.at # "idle" ]_vars
    /\ [][ CompletionReturns =>
             IF PollingObjectsExist
             THEN /\ AsyncRequests' = AsyncRequests + 1
                  /\ pendingReads' = pendingReads +
                        (IF framework'[Len(framework')].ret = "success"
                         THEN 1 ELSE 0)
             ELSE /\ AsyncRequests' = AsyncRequests
                  /\ pendingReads' = pendingReads ]_vars
    /\ [][ CompletionAborted =>
             /\ AsyncRequests' = AsyncRequests
             /\ completion'.at = "idle" ]_vars
    /\ [][ AsyncRequests' # AsyncRequests =>
             CompletionReturns \/ pc = "constructed" ]_vars
    /\ [][ pc = "stopped" =>
             /\ AsyncRequests' = AsyncRequests
             /\ pendingReads' <= pendingReads ]_vars

\* a completion with an error status was followed by a new read, whose
\* completion asked for the next one and AsyncIO refused it: nothing is
\* outstanding although the driver has not been stopped
C24_Witness_RequestRefused ==
    /\ pc = "started"
    /\ completion.at = "idle"
    /\ Len(delivered) = 2
    /\ delivered[1].status = "error"
    /\ delivered[2].status = "success"
    /\ AsyncRequests = 3
    /\ CallsOf("AsyncIO")[2].ret = "success"
    /\ CallsOf("AsyncIO")[3].ret = "AsyncIOError"
    /\ PollingObjectsExist
    /\ pendingReads = 0

\* the number of updateBatteryProperties calls made so far
BatteryUpdates == Len(CallsOf("updateBatteryProperties"))

\* the completions so far that called processInputReport
ProcessedDeliveries ==
    { i \in DOMAIN delivered :
        /\ delivered[i].status # "aborted"
        /\ delivered[i].count >= DS4_USB_INPUT_REPORT_SIZE
        /\ ~delivered[i].bytes.null
        /\ delivered[i].range }

\* this step is the battery comparison of processInputReport and its return
ProcessInputReportReturns ==
    /\ completion.at = "battery"
    /\ completion'.at = "forward"

\* the cached battery level and cable flag differ from the last published
CachedPairDiffers ==
    \/ ivars.v.inputState.battery.level # ivars.v.lastBatteryLevel
    \/ ivars.v.inputState.battery.cableConnected # ivars.v.lastCableConnected

\* level*100 divided by 11 with the cable, by 8 without, capped at 100
ExpectedPercent ==
    LET level   == ivars.v.inputState.battery.level
        divisor == IF ivars.v.inputState.battery.cableConnected
                   THEN 11 ELSE 8
        percent == (level * 100) \div divisor
    IN  IF percent > 100 THEN 100 ELSE percent

StartOrder ==
    << "Start(SUPERDISPATCH)", "OSDynamicCast", "configureDevice",
       "readCalibrationData", "startInputPolling", "RegisterService" >>

\* the steps Start_Impl took, in the order it took them
StartSteps ==
    SelectSeq(framework,
              LAMBDA c : \E k \in DOMAIN StartOrder : c.fn = StartOrder[k])

\* Start_Impl has returned
StartReturned == CallsOf("Start_Impl") # <<>>

\* the value Start_Impl returned
StartResult == CallsOf("Start_Impl")[1].ret

\* the step succeeded
StepSucceeded(fn) ==
    \E i \in DOMAIN StartSteps :
        StartSteps[i].fn = fn /\ StartSteps[i].ret = "success"

\* C26: Start_Impl takes its steps in the order super Start, provider cast,
\* configureDevice, readCalibrationData, startInputPolling,
\* RegisterService.  It registers the service and returns success exactly
\* when super Start, the cast, configureDevice and startInputPolling all
\* succeeded; when one of them fails it returns that step's error and
\* takes no further step; the result of readCalibrationData changes
\* neither.
C26_StartOrder ==
    StartReturned =>
        /\ Len(StartSteps) <= Len(StartOrder)
        /\ \A i \in DOMAIN StartSteps : StartSteps[i].fn = StartOrder[i]
        /\ LET required == { "Start(SUPERDISPATCH)", "OSDynamicCast",
                             "configureDevice", "startInputPolling" }
               last     == StartSteps[Len(StartSteps)]
           IN  /\ (StartResult = "success")
                     <=> (\A fn \in required : StepSucceeded(fn))
               /\ (StartResult = "success")
                     <=> (CallsOf("RegisterService") # <<>>)
               /\ (StartResult = "success") <=> (pc \in {"started", "stopped"})
               /\ StartResult # "success" =>
                     /\ last.fn \in required
                     /\ last.ret # "success"
                     /\ StartResult = IF last.fn = "OSDynamicCast"
                                      THEN "kIOReturnNoDevice" ELSE last.ret
                     /\ \A i \in 1..(Len(StartSteps) - 1) :
                           StartSteps[i].fn \in required
                              => StartSteps[i].ret = "success"
               /\ StepSucceeded("configureDevice") =>
                     /\ CallsOf("readCalibrationData") # <<>>
                     /\ CallsOf("startInputPolling") # <<>>

\* the calibration request failed and the service was registered all the same
C26_Witness_RegisteredWithoutCalibration ==
    /\ pc = "started"
    /\ StartReturned
    /\ StartResult = "success"
    /\ CallsOf("readCalibrationData")[1].ret = "DeviceRequestError"
    /\ StartSteps[Len(StartSteps)].fn = "RegisterService"
    /\ Len(StartSteps) = Len(StartOrder)
    /\ pendingReads = 1

=============================================================================
